---- MODULE Spec2Model ----
(***************************************************************************)
(* A model of the blog backend: the relational store declared in           *)
(* server/src/db/schema.ts and the request handlers that run statements    *)
(* against it.  Every handler is a little state machine whose steps are    *)
(* the database statements it awaits, in order; the synchronous code       *)
(* between two awaits belongs to the step of the statement before it.      *)
(*                                                                         *)
(* Spec  runs each handler call to completion in one action (calls arrive  *)
(*       one after the other).                                             *)
(* SpecC runs the calls of several connections statement by statement, so  *)
(*       that the statements of different calls interleave.                *)
(***************************************************************************)
EXTENDS Integers, Sequences, FiniteSets, Bags, TLC

(***************************************************************************)
(* Bounds of the model.                                                    *)
(***************************************************************************)
MaxId == 2        \* ids handed out per table (serial columns)
MaxTime == 2      \* readings of the clock: 0 .. MaxTime

Ids == 1 .. MaxId
Slugs == {"a", "b"}
Names == {"Tech"}
Titles == {"Intro", "Guide"}
Contents == {"body"}
Statuses == {"draft", "published"}
NULL == "<null>"

Tables == {"categories", "tags", "articles", "static_pages"}

(***************************************************************************)
(* Small helpers.                                                          *)
(***************************************************************************)
Range(s) == {s[i] : i \in DOMAIN s}

Has(input, field) == field \in DOMAIN input

\* Array.prototype.join on a list of numbers
RECURSIVE Join(_, _)
Join(ids, sep) ==
  IF Len(ids) = 0 THEN ""
  ELSE IF Len(ids) = 1 THEN ToString(ids[1])
  ELSE ToString(ids[1]) \o sep \o Join(Tail(ids), sep)

\* Array.prototype.filter
Filter(s, Test(_)) == SelectSeq(s, Test)

Min(a, b) == IF a < b THEN a ELSE b

(***************************************************************************)
(* Text matching.  A text is a string; ILIKE folds the case of both sides  *)
(* and matches the text against a pattern in which % stands for any run of *)
(* characters, _ for any one character and \ takes the next character      *)
(* literally.                                                              *)
(***************************************************************************)
LowerOf ==
  [A |-> "a", B |-> "b", C |-> "c", D |-> "d", E |-> "e", F |-> "f", G |-> "g",
   H |-> "h", I |-> "i", J |-> "j", K |-> "k", L |-> "l", M |-> "m", N |-> "n",
   O |-> "o", P |-> "p", Q |-> "q", R |-> "r", S |-> "s", T |-> "t", U |-> "u",
   V |-> "v", W |-> "w", X |-> "x", Y |-> "y", Z |-> "z"]

RECURSIVE ToLower(_)
ToLower(s) ==
  IF s = "" THEN ""
  ELSE (IF Head(s) \in DOMAIN LowerOf THEN LowerOf[Head(s)] ELSE Head(s))
         \o ToLower(Tail(s))

\* text LIKE pattern
RECURSIVE LikeMatch(_, _)
LikeMatch(s, p) ==
  IF p = "" THEN s = ""
  ELSE IF Head(p) = "%"
  THEN LikeMatch(s, Tail(p)) \/ (s # "" /\ LikeMatch(Tail(s), p))
  ELSE IF Head(p) = "_" THEN s # "" /\ LikeMatch(Tail(s), Tail(p))
  ELSE IF Head(p) = "\\" /\ Len(p) > 1
  THEN s # "" /\ Head(s) = Head(Tail(p)) /\ LikeMatch(Tail(s), Tail(Tail(p)))
  ELSE s # "" /\ Head(s) = Head(p) /\ LikeMatch(Tail(s), Tail(p))

\* text ILIKE pattern
ilike(s, p) == LikeMatch(ToLower(s), ToLower(p))

(***************************************************************************)
(* The store.  A table is the set of its rows.  article_tags has a serial  *)
(* id of its own and no unique constraint on (article_id, tag_id); its id  *)
(* is never selected, so the table is kept as the bag of its               *)
(* <<article_id, tag_id>> pairs.  seq holds the last value of each serial  *)
(* sequence, and now the reading of the database's clock, which is the     *)
(* value of defaultNow(); the handlers' new Date() reads the server's.     *)
(***************************************************************************)
EmptyDB ==
  [categories |-> {}, tags |-> {}, articles |-> {}, article_tags |-> EmptyBag,
   static_pages |-> {},
   seq |-> [t \in Tables |-> 0],
   now |-> 0]

\* the outcome of one statement
StmtOk(db, rows) == [ok |-> TRUE, error |-> "", db |-> db, rows |-> rows]
StmtFail(db, error) == [ok |-> FALSE, error |-> error, db |-> db, rows |-> {}]

UniqueViolation(table) ==
  "duplicate key value violates unique constraint " \o table \o "_slug_unique"
ForeignKeyViolation(table, column) ==
  "violates foreign key constraint " \o table \o "_" \o column \o "_fk"

\* variant: slug: text('slug').notNull(), without unique()
SlugNeverTaken(rows, slug, exceptId) == FALSE

\* variant: the slug compared with every row, the updated row included
SlugTakenByAny(rows, slug, exceptId) == \E r \in rows : r.slug = slug

\* slug: text('slug').notNull().unique()
SlugTaken(rows, slug, exceptId) ==
  \E r \in rows : r.slug = slug /\ r.id # exceptId

\* references(() => xTable.id)
Referenced(rows, id) == \E r \in rows : r.id = id

\* db.select().from(table).where(eq(table.id, id))
SelectById(rows, id) == {r \in rows : r.id = id}

\* SET col = value for the columns of `set`, the others keep their value
ApplySet(row, set) ==
  [c \in DOMAIN row |-> IF c \in DOMAIN set THEN set[c] ELSE row[c]]

(***************************************************************************)
(* Statements.  Each is one INSERT, UPDATE or DELETE with the constraints  *)
(* the schema declares: the primary key drawn from the serial sequence,    *)
(* the unique slug, the foreign keys and their ON DELETE rules.  `now` is  *)
(* the value of defaultNow().                                              *)
(***************************************************************************)
NextId(db, table) == db.seq[table] + 1

\* db.insert(categoriesTable).values(vals).returning()
InsertCategory(db, vals, now) ==
  LET row == [id |-> NextId(db, "categories"), name |-> vals.name,
              slug |-> vals.slug, description |-> vals.description,
              created_at |-> now, updated_at |-> now]
  IN IF SlugTaken(db.categories, vals.slug, 0)
     THEN StmtFail(db, UniqueViolation("categories"))
     ELSE StmtOk([db EXCEPT !.categories = @ \cup {row},
                            !.seq["categories"] = row.id], {row})

\* db.insert(tagsTable).values(vals).returning()
InsertTag(db, vals, now) ==
  LET row == [id |-> NextId(db, "tags"), name |-> vals.name, slug |-> vals.slug,
              created_at |-> now, updated_at |-> now]
  IN IF SlugTaken(db.tags, vals.slug, 0)
     THEN StmtFail(db, UniqueViolation("tags"))
     ELSE StmtOk([db EXCEPT !.tags = @ \cup {row}, !.seq["tags"] = row.id], {row})

\* db.insert(staticPagesTable).values(vals).returning()
InsertStaticPage(db, vals, now) ==
  LET row == [id |-> NextId(db, "static_pages"), slug |-> vals.slug,
              title |-> vals.title, content |-> vals.content,
              seo_title |-> vals.seo_title,
              seo_description |-> vals.seo_description,
              created_at |-> now, updated_at |-> now]
  IN IF SlugTaken(db.static_pages, vals.slug, 0)
     THEN StmtFail(db, UniqueViolation("static_pages"))
     ELSE StmtOk([db EXCEPT !.static_pages = @ \cup {row},
                            !.seq["static_pages"] = row.id], {row})

\* variant: category_id is a plain integer column, without references()
InsertArticleUnchecked(db, vals, now) ==
  LET row == [id |-> NextId(db, "articles"), title |-> vals.title,
              slug |-> vals.slug, content |-> vals.content,
              excerpt |-> vals.excerpt, cover_image |-> vals.cover_image,
              status |-> vals.status, category_id |-> vals.category_id,
              seo_title |-> vals.seo_title,
              seo_description |-> vals.seo_description,
              created_at |-> now, updated_at |-> now]
  IN IF SlugTaken(db.articles, vals.slug, 0)
     THEN StmtFail(db, UniqueViolation("articles"))
     ELSE StmtOk([db EXCEPT !.articles = @ \cup {row},
                            !.seq["articles"] = row.id], {row})

\* db.insert(articlesTable).values(vals).returning()
InsertArticle(db, vals, now) ==
  LET row == [id |-> NextId(db, "articles"), title |-> vals.title,
              slug |-> vals.slug, content |-> vals.content,
              excerpt |-> vals.excerpt, cover_image |-> vals.cover_image,
              status |-> vals.status, category_id |-> vals.category_id,
              seo_title |-> vals.seo_title,
              seo_description |-> vals.seo_description,
              created_at |-> now, updated_at |-> now]
  IN IF SlugTaken(db.articles, vals.slug, 0)
     THEN StmtFail(db, UniqueViolation("articles"))
     ELSE IF ~Referenced(db.categories, vals.category_id)
     THEN StmtFail(db, ForeignKeyViolation("articles", "category_id"))
     ELSE StmtOk([db EXCEPT !.articles = @ \cup {row},
                            !.seq["articles"] = row.id], {row})

\* variant: a single row, for the first tag id
InsertFirstArticleTag(db, articleId, tagIds) ==
  IF ~Referenced(db.articles, articleId)
  THEN StmtFail(db, ForeignKeyViolation("article_tags", "article_id"))
  ELSE IF \E i \in DOMAIN tagIds : ~Referenced(db.tags, tagIds[i])
  THEN StmtFail(db, ForeignKeyViolation("article_tags", "tag_id"))
  ELSE StmtOk([db EXCEPT !.article_tags =
                           @ (+) SetToBag({<<articleId, tagIds[1]>>})], {})

\* db.insert(articleTagsTable).values(tagIds.map(tagId => ({article_id, tag_id})))
\* one statement: every row is inserted or none is
InsertArticleTags(db, articleId, tagIds) ==
  IF ~Referenced(db.articles, articleId)
  THEN StmtFail(db, ForeignKeyViolation("article_tags", "article_id"))
  ELSE IF \E i \in DOMAIN tagIds : ~Referenced(db.tags, tagIds[i])
  THEN StmtFail(db, ForeignKeyViolation("article_tags", "tag_id"))
  ELSE LET Add[i \in 0 .. Len(tagIds)] ==
             IF i = 0 THEN db.article_tags
             ELSE Add[i - 1] (+) SetToBag({<<articleId, tagIds[i]>>})
       IN StmtOk([db EXCEPT !.article_tags = Add[Len(tagIds)]], {})

\* the rows of article_tags that satisfy Keep
KeepLinks(links, Keep(_)) ==
  LET D == {l \in DOMAIN links : Keep(l)} IN [l \in D |-> links[l]]

\* db.delete(articleTagsTable).where(eq(articleTagsTable.article_id, articleId))
DeleteArticleTags(db, articleId) ==
  LET Keep(l) == l[1] # articleId
  IN StmtOk([db EXCEPT !.article_tags = KeepLinks(@, Keep)], {})

\* variant: article_tags.article_id declared without onDelete 'cascade', so
\* that the delete is refused while the article has links
DeleteArticleRowRestricted(db, id) ==
  LET rows == SelectById(db.articles, id)
  IN IF rows # {} /\ \E l \in DOMAIN db.article_tags : l[1] = id
     THEN StmtFail(db, ForeignKeyViolation("article_tags", "article_id"))
     ELSE StmtOk([db EXCEPT !.articles = @ \ rows], rows)

\* db.delete(articlesTable).where(eq(articlesTable.id, id)).returning()
\* article_tags.article_id: onDelete 'cascade'
DeleteArticleRow(db, id) ==
  LET rows == SelectById(db.articles, id)
      Keep(l) == l[1] # id
  IN StmtOk([db EXCEPT !.articles = @ \ rows,
                       !.article_tags = KeepLinks(@, Keep)], rows)

\* variant: article_tags.tag_id declared without a cascade that reaches the rows
DeleteTagRowOnly(db, id) ==
  LET rows == SelectById(db.tags, id)
  IN StmtOk([db EXCEPT !.tags = @ \ rows], rows)

\* db.delete(tagsTable).where(eq(tagsTable.id, id)).returning()
\* article_tags.tag_id: onDelete 'cascade'
DeleteTagRow(db, id) ==
  LET rows == SelectById(db.tags, id)
      Keep(l) == l[2] # id
  IN StmtOk([db EXCEPT !.tags = @ \ rows,
                       !.article_tags = KeepLinks(@, Keep)], rows)

\* variant: articles.category_id declared without references()
DeleteCategoryRowUnreferenced(db, id) ==
  LET rows == SelectById(db.categories, id)
  IN StmtOk([db EXCEPT !.categories = @ \ rows], rows)

\* db.delete(categoriesTable).where(eq(categoriesTable.id, id))
\* articles.category_id references categories.id with no ON DELETE rule: the
\* delete is refused while an article references the row
DeleteCategoryRow(db, id) ==
  LET rows == SelectById(db.categories, id)
  IN IF rows # {} /\ \E a \in db.articles : a.category_id = id
     THEN StmtFail(db, ForeignKeyViolation("articles", "category_id"))
     ELSE StmtOk([db EXCEPT !.categories = @ \ rows], rows)

\* db.delete(staticPagesTable).where(eq(staticPagesTable.id, id)).returning()
DeleteStaticPageRow(db, id) ==
  LET rows == SelectById(db.static_pages, id)
  IN StmtOk([db EXCEPT !.static_pages = @ \ rows], rows)

\* db.update(table).set(set).where(eq(table.id, id)).returning() on a table
\* whose only constraint besides the key is the unique slug
UpdateRows(db, table, id, set) ==
  LET old == SelectById(db[table], id)
      new == {ApplySet(r, set) : r \in old}
  IN IF \E r \in new : SlugTaken(db[table], r.slug, r.id)
     THEN StmtFail(db, UniqueViolation(table))
     ELSE StmtOk([db EXCEPT ![table] = (@ \ old) \cup new], new)

\* db.update(articlesTable).set(set).where(eq(articlesTable.id, id)).returning()
UpdateArticleRow(db, id, set) ==
  LET old == SelectById(db.articles, id)
      new == {ApplySet(r, set) : r \in old}
  IN IF \E r \in new : SlugTaken(db.articles, r.slug, r.id)
     THEN StmtFail(db, UniqueViolation("articles"))
     ELSE IF \E r \in new : ~Referenced(db.categories, r.category_id)
     THEN StmtFail(db, ForeignKeyViolation("articles", "category_id"))
     ELSE StmtOk([db EXCEPT !.articles = (@ \ old) \cup new], new)

\* select tags.* from article_tags inner join tags on tag_id = tags.id
\* where article_id = articleId: one row per link row (a list; its order is
\* not determined, so it is kept as the bag of the tag rows)
SelectTagsOfArticle(db, articleId) ==
  LET hits == {l \in DOMAIN db.article_tags :
                 l[1] = articleId /\ Referenced(db.tags, l[2])}
      TagOf(l) == CHOOSE t \in db.tags : t.id = l[2]
  IN [t \in {TagOf(l) : l \in hits} |->
        db.article_tags[CHOOSE l \in hits : TagOf(l) = t]]

\* select ... from articles inner join categories on category_id = categories.id
\* where Cond(article): the article columns with the category row beside them
SelectArticlesWithCategory(db, Cond(_)) ==
  {[article |-> a, category |-> c] :
     <<a, c>> \in {p \in db.articles \X db.categories :
                     p[1].category_id = p[2].id /\ Cond(p[1])}}

(***************************************************************************)
(* Handler calls.  A call in progress is a frame: the handler's name, its  *)
(* input, the statement it executes next (pc), the handler's local         *)
(* variables (loc) and, once pc = "done", what it returned or threw (res). *)
(* A handler is the function that executes the frame's next statement on   *)
(* a store.  An optional input field that is left out is absent from the   *)
(* input record.                                                           *)
(***************************************************************************)
Call(op, input) ==
  [op |-> op, input |-> input, pc |-> "start", loc |-> <<>>,
   res |-> [pending |-> TRUE]]

Bind(loc, name, value) == (name :> value) @@ loc

Goto(db, f, pc, loc) == [db |-> db, f |-> [f EXCEPT !.pc = pc, !.loc = loc]]
Return(db, f, res) == [db |-> db, f |-> [f EXCEPT !.pc = "done", !.res = res]]
Throw(db, f, message) == Return(db, f, [error |-> message])

Threw(f) == f.pc = "done" /\ Has(f.res, "error")
Returned(f) == f.pc = "done" /\ ~Has(f.res, "error")

\* { ...article, category, tags }
WithRelations(article, category, tags) ==
  [category |-> category, tags |-> tags] @@ article

\* input.tag_ids && input.tag_ids.length > 0
HasTagIds(input) == Has(input, "tag_ids") /\ Len(input.tag_ids) > 0

\* db.select().from(tagsTable).where(inArray(tagsTable.id, tag_ids))
SelectTagsIn(db, tag_ids) == {t \in db.tags : t.id \in Range(tag_ids)}

\* variant: the first missing id only
FirstMissingTagId(tag_ids, foundTags) ==
  LET foundTagIds == {t.id : t \in foundTags}
      Missing(id) == id \notin foundTagIds
      all == Filter(tag_ids, Missing)
  IN IF all = <<>> THEN all ELSE <<all[1]>>

\* input.tag_ids.filter(id => !foundTagIds.includes(id))
MissingTagIds(tag_ids, foundTags) ==
  LET foundTagIds == {t.id : t \in foundTags}
      Missing(id) == id \notin foundTagIds
  IN Filter(tag_ids, Missing)

\* variant: the update object without updated_at
UpdateValuesUntouched(input, columns, now) ==
  [c \in columns \cap DOMAIN input |-> input[c]]

\* the update object of an update handler: updated_at: new Date() and the
\* fields of `columns` that the input provides
UpdateValues(input, columns, now) ==
  [c \in {"updated_at"} \cup (columns \cap DOMAIN input) |->
     IF c = "updated_at" THEN now ELSE input[c]]

CategoryColumns == {"name", "slug", "description"}
TagColumns == {"name", "slug"}
StaticPageColumns == {"slug", "title", "content", "seo_title", "seo_description"}
ArticleColumns ==
  {"title", "slug", "content", "excerpt", "cover_image", "status",
   "category_id", "seo_title", "seo_description"}

\* ---- categories ----

createCategory(db, f, now) ==
  LET r == InsertCategory(db, f.input, db.now)
  IN IF r.ok THEN Return(r.db, f, [row |-> CHOOSE x \in r.rows : TRUE])
     ELSE Throw(r.db, f, r.error)

updateCategory(db, f, now) ==
  LET updateData == UpdateValues(f.input, CategoryColumns, now)
      r == UpdateRows(db, "categories", f.input.id, updateData)
  IN IF ~r.ok THEN Throw(r.db, f, r.error)
     ELSE IF r.rows = {}
     THEN Throw(r.db, f, "Category with id " \o ToString(f.input.id) \o " not found")
     ELSE Return(r.db, f, [row |-> CHOOSE x \in r.rows : TRUE])

\* variant: the handler leaves the check for dependent articles to the store
deleteCategoryUnchecked(db, f, now) ==
  CASE f.pc = "start" ->
         LET existingCategory == SelectById(db.categories, f.input.id)
         IN IF existingCategory = {}
            THEN Throw(db, f, "Category with id " \o ToString(f.input.id)
                                \o " not found")
            ELSE Goto(db, f, "deleteCategory", f.loc)
    [] f.pc = "deleteCategory" ->
         LET r == DeleteCategoryRow(db, f.input.id)
         IN IF r.ok THEN Return(r.db, f, [success |-> TRUE])
            ELSE Throw(r.db, f, r.error)

deleteCategory(db, f, now) ==
  CASE f.pc = "start" ->
         LET existingCategory == SelectById(db.categories, f.input.id)
         IN IF existingCategory = {}
            THEN Throw(db, f, "Category with id " \o ToString(f.input.id)
                                \o " not found")
            ELSE Goto(db, f, "selectArticles", f.loc)
    [] f.pc = "selectArticles" ->
         LET articlesUsingCategory ==
               {a \in db.articles : a.category_id = f.input.id}
         IN IF Cardinality(articlesUsingCategory) > 0
            THEN Throw(db, f, "Cannot delete category: "
                                \o ToString(Cardinality(articlesUsingCategory))
                                \o " article(s) are using this category")
            ELSE Goto(db, f, "deleteCategory", f.loc)
    [] f.pc = "deleteCategory" ->
         LET r == DeleteCategoryRow(db, f.input.id)
         IN IF r.ok THEN Return(r.db, f, [success |-> TRUE])
            ELSE Throw(r.db, f, r.error)

\* ---- tags ----

createTag(db, f, now) ==
  LET r == InsertTag(db, f.input, db.now)
  IN IF r.ok THEN Return(r.db, f, [row |-> CHOOSE x \in r.rows : TRUE])
     ELSE Throw(r.db, f, r.error)

updateTag(db, f, now) ==
  CASE f.pc = "start" ->
         LET existingTag == SelectById(db.tags, f.input.id)
         IN IF existingTag = {}
            THEN Throw(db, f, "Tag with id " \o ToString(f.input.id) \o " not found")
            ELSE Goto(db, f, "updateTag",
                      Bind(f.loc, "updateData",
                           UpdateValues(f.input, TagColumns, now)))
    [] f.pc = "updateTag" ->
         LET r == UpdateRows(db, "tags", f.input.id, f.loc.updateData)
         IN IF ~r.ok THEN Throw(r.db, f, r.error)
            ELSE IF r.rows = {} THEN Return(r.db, f, [undefined |-> TRUE])
            ELSE Return(r.db, f, [row |-> CHOOSE x \in r.rows : TRUE])

\* variant: a tag that does not exist is an error, as for categories
deleteTagStrict(db, f, now) ==
  CASE f.pc = "start" ->
         LET existingTag == SelectById(db.tags, f.input.id)
         IN IF existingTag = {}
            THEN Throw(db, f, "Tag with id " \o ToString(f.input.id) \o " not found")
            ELSE Goto(db, f, "deleteTag", f.loc)
    [] f.pc = "deleteTag" ->
         LET r == DeleteTagRow(db, f.input.id)
         IN Return(r.db, f, [success |-> Cardinality(r.rows) > 0])

deleteTag(db, f, now) ==
  CASE f.pc = "start" ->
         LET existingTag == SelectById(db.tags, f.input.id)
         IN IF existingTag = {} THEN Return(db, f, [success |-> FALSE])
            ELSE Goto(db, f, "deleteTag", f.loc)
    [] f.pc = "deleteTag" ->
         LET r == DeleteTagRow(db, f.input.id)
         IN Return(r.db, f, [success |-> Cardinality(r.rows) > 0])

\* ---- static pages ----

createStaticPage(db, f, now) ==
  LET r == InsertStaticPage(db, f.input, db.now)
  IN IF r.ok THEN Return(r.db, f, [row |-> CHOOSE x \in r.rows : TRUE])
     ELSE Throw(r.db, f, r.error)

updateStaticPage(db, f, now) ==
  LET updateData == UpdateValues(f.input, StaticPageColumns, now)
      r == UpdateRows(db, "static_pages", f.input.id, updateData)
  IN IF ~r.ok THEN Throw(r.db, f, r.error)
     ELSE IF r.rows = {}
     THEN Throw(r.db, f, "Static page with id " \o ToString(f.input.id)
                           \o " not found")
     ELSE Return(r.db, f, [row |-> CHOOSE x \in r.rows : TRUE])

\* variant: a page that does not exist is an error
deleteStaticPageStrict(db, f, now) ==
  CASE f.pc = "start" ->
         LET existingPage == SelectById(db.static_pages, f.input.id)
         IN IF existingPage = {}
            THEN Throw(db, f, "Static page with id " \o ToString(f.input.id)
                                \o " not found")
            ELSE Goto(db, f, "deleteStaticPage", f.loc)
    [] f.pc = "deleteStaticPage" ->
         LET r == DeleteStaticPageRow(db, f.input.id)
         IN Return(r.db, f, [success |-> Cardinality(r.rows) > 0])

deleteStaticPage(db, f, now) ==
  CASE f.pc = "start" ->
         LET existingPage == SelectById(db.static_pages, f.input.id)
         IN IF existingPage = {} THEN Return(db, f, [success |-> FALSE])
            ELSE Goto(db, f, "deleteStaticPage", f.loc)
    [] f.pc = "deleteStaticPage" ->
         LET r == DeleteStaticPageRow(db, f.input.id)
         IN Return(r.db, f, [success |-> Cardinality(r.rows) > 0])

\* ---- articles ----

createArticle(db, f, now) ==
  CASE f.pc = "start" ->
         LET category == SelectById(db.categories, f.input.category_id)
         IN IF category = {}
            THEN Throw(db, f, "Category with id " \o ToString(f.input.category_id)
                                \o " not found")
            ELSE Goto(db, f,
                      IF HasTagIds(f.input) THEN "selectTags" ELSE "insertArticle",
                      Bind(Bind(f.loc, "category", category), "validTags", {}))
    [] f.pc = "selectTags" ->
         LET validTags == SelectTagsIn(db, f.input.tag_ids)
         IN IF Cardinality(validTags) # Len(f.input.tag_ids)
            THEN Throw(db, f, "Tags with ids "
                                \o Join(MissingTagIds(f.input.tag_ids, validTags), ", ")
                                \o " not found")
            ELSE Goto(db, f, "insertArticle", Bind(f.loc, "validTags", validTags))
    [] f.pc = "insertArticle" ->
         LET r == InsertArticle(db, f.input, db.now)
             newArticle == CHOOSE x \in r.rows : TRUE
         IN IF ~r.ok THEN Throw(r.db, f, r.error)
            ELSE IF HasTagIds(f.input)
            THEN Goto(r.db, f, "insertArticleTags",
                      Bind(f.loc, "newArticle", newArticle))
            ELSE Return(r.db, f,
                        [article |-> WithRelations(newArticle,
                                        CHOOSE c \in f.loc.category : TRUE,
                                        SetToBag(f.loc.validTags))])
    [] f.pc = "insertArticleTags" ->
         LET r == InsertArticleTags(db, f.loc.newArticle.id, f.input.tag_ids)
         IN IF ~r.ok THEN Throw(r.db, f, r.error)
            ELSE Return(r.db, f,
                        [article |-> WithRelations(f.loc.newArticle,
                                        CHOOSE c \in f.loc.category : TRUE,
                                        SetToBag(f.loc.validTags))])

\* variant: input.tag_ids && input.tag_ids.length > 0
ReplacesTagsIfAny(input) == HasTagIds(input)

\* input.tag_ids !== undefined
ReplacesTags(input) == Has(input, "tag_ids")

\* variant: no validation of tag_ids before the update
AfterArticleAndCategory(f) ==
  IF f.pc = "start" /\ Has(f.input, "category_id") THEN "selectCategory"
  ELSE "updateArticle"

\* the statement updateArticle runs after its validation selects
AfterValidation(f) ==
  IF f.pc = "start" /\ Has(f.input, "category_id") THEN "selectCategory"
  ELSE IF f.pc \in {"start", "selectCategory"} /\ HasTagIds(f.input)
  THEN "selectTags"
  ELSE "updateArticle"

\* the validation succeeded: go on, building updateValues before the update
Validated(db, f, now) ==
  LET pc == AfterValidation(f)
  IN Goto(db, f, pc,
          IF pc = "updateArticle"
          THEN Bind(f.loc, "updateValues",
                    UpdateValues(f.input, ArticleColumns, now))
          ELSE f.loc)

updateArticle(db, f, now) ==
  CASE f.pc = "start" ->
         LET existingArticle == SelectById(db.articles, f.input.id)
         IN IF existingArticle = {}
            THEN Throw(db, f, "Article with ID " \o ToString(f.input.id)
                                \o " not found")
            ELSE Validated(db, f, now)
    [] f.pc = "selectCategory" ->
         LET categoryExists == SelectById(db.categories, f.input.category_id)
         IN IF categoryExists = {}
            THEN Throw(db, f, "Category with ID "
                                \o ToString(f.input.category_id) \o " not found")
            ELSE Validated(db, f, now)
    [] f.pc = "selectTags" ->
         LET existingTags == SelectTagsIn(db, f.input.tag_ids)
         IN IF Cardinality(existingTags) # Len(f.input.tag_ids)
            THEN Throw(db, f, "Tags with IDs "
                                \o Join(MissingTagIds(f.input.tag_ids, existingTags), ", ")
                                \o " not found")
            ELSE Validated(db, f, now)
    [] f.pc = "updateArticle" ->
         LET r == UpdateArticleRow(db, f.input.id, f.loc.updateValues)
         IN IF ~r.ok THEN Throw(r.db, f, r.error)
            ELSE Goto(r.db, f,
                      IF ReplacesTags(f.input) THEN "deleteArticleTags"
                      ELSE "selectArticle",
                      f.loc)
    [] f.pc = "deleteArticleTags" ->
         LET r == DeleteArticleTags(db, f.input.id)
         IN Goto(r.db, f,
                 IF Len(f.input.tag_ids) > 0 THEN "insertArticleTags"
                 ELSE "selectArticle",
                 f.loc)
    [] f.pc = "insertArticleTags" ->
         LET r == InsertArticleTags(db, f.input.id, f.input.tag_ids)
         IN IF ~r.ok THEN Throw(r.db, f, r.error)
            ELSE Goto(r.db, f, "selectArticle", f.loc)
    [] f.pc = "selectArticle" ->
         LET Cond(a) == a.id = f.input.id
         IN Goto(db, f, "selectArticleTags",
                 Bind(f.loc, "articleWithRelations",
                      SelectArticlesWithCategory(db, Cond)))
    [] f.pc = "selectArticleTags" ->
         LET articleTags == SelectTagsOfArticle(db, f.input.id)
             found == f.loc.articleWithRelations
             result == CHOOSE x \in found : TRUE
         IN IF found = {}
            THEN Return(db, f, [tagsOnly |-> articleTags])
            ELSE Return(db, f,
                        [article |-> WithRelations(result.article,
                                        result.category, articleTags)])

deleteArticle(db, f, now) ==
  LET r == DeleteArticleRow(db, f.input.id)
  IN IF r.ok THEN Return(r.db, f, [success |-> Cardinality(r.rows) > 0])
     ELSE Throw(r.db, f, r.error)

getArticleBySlug(db, f, now) ==
  CASE f.pc = "start" ->
         LET Cond(a) == a.slug = f.input.slug
             articleResult == SelectArticlesWithCategory(db, Cond)
         IN IF articleResult = {} THEN Return(db, f, [null |-> TRUE])
            ELSE Goto(db, f, "selectTags",
                      Bind(f.loc, "articleData",
                           CHOOSE x \in articleResult : TRUE))
    [] f.pc = "selectTags" ->
         LET tagsResult == SelectTagsOfArticle(db, f.loc.articleData.article.id)
         IN Return(db, f,
                   [article |-> WithRelations(f.loc.articleData.article,
                                   f.loc.articleData.category, tagsResult)])

(***************************************************************************)
(* Queries that return a list.  ORDER BY created_at leaves the order of    *)
(* rows with equal created_at to the database; the frame of such a call    *)
(* carries in loc.scan the order in which the database happens to produce  *)
(* the rows, and equal keys keep that order.                               *)
(***************************************************************************)
CallScanning(op, input, scan) ==
  [Call(op, input) EXCEPT !.loc = [scan |-> scan]]

Rank(scan, id) == CHOOSE i \in 1 .. Len(scan) : scan[i] = id

\* variant: .orderBy(articlesTable.created_at), oldest first
RECURSIVE OrderByCreatedAtAsc(_, _)
OrderByCreatedAtAsc(rows, scan) ==
  IF rows = EmptyBag THEN <<>>
  ELSE LET S == BagToSet(rows)
           Before(r, o) ==
             \/ r.article.created_at < o.article.created_at
             \/ /\ r.article.created_at = o.article.created_at
                /\ Rank(scan, r.article.id) <= Rank(scan, o.article.id)
           first == CHOOSE r \in S : \A o \in S : Before(r, o)
       IN <<first>> \o OrderByCreatedAtAsc(rows (-) SetToBag({first}), scan)

\* .orderBy(desc(articlesTable.created_at)) of a bag of joined rows
RECURSIVE OrderByCreatedAtDesc(_, _)
OrderByCreatedAtDesc(rows, scan) ==
  IF rows = EmptyBag THEN <<>>
  ELSE LET S == BagToSet(rows)
           Before(r, o) ==
             \/ r.article.created_at > o.article.created_at
             \/ /\ r.article.created_at = o.article.created_at
                /\ Rank(scan, r.article.id) <= Rank(scan, o.article.id)
           first == CHOOSE r \in S : \A o \in S : Before(r, o)
       IN <<first>> \o OrderByCreatedAtDesc(rows (-) SetToBag({first}), scan)

\* .limit(limit).offset(offset)
LimitOffset(list, limit, offset) ==
  SubSeq(list, offset + 1, Min(Len(list), offset + limit))

\* if (input.query) or(ilike(title, `%${query}%`), ilike(content, `%${query}%`))
MatchesQuery(input, a) ==
  Has(input, "query") /\ input.query # ""
    => \/ ilike(a.title, "%" \o input.query \o "%")
       \/ ilike(a.content, "%" \o input.query \o "%")

\* if (input.category_id !== undefined) eq(category_id, input.category_id)
MatchesCategory(input, a) ==
  Has(input, "category_id") => a.category_id = input.category_id

\* variant: articles are published unless the caller asks for a status
MatchesStatusOrPublished(input, a) ==
  a.status = (IF Has(input, "status") THEN input.status ELSE "published")

\* if (input.status !== undefined) eq(status, input.status)
MatchesStatus(input, a) == Has(input, "status") => a.status = input.status

\* select article_id from article_tags where tag_id in tag_ids
ArticlesWithTags(db, tagIds) ==
  {l[1] : l \in {k \in DOMAIN db.article_tags : k[2] \in Range(tagIds)}}

\* variant: if (input.tag_ids)
MatchesTagsIfGiven(db, input, a) ==
  Has(input, "tag_ids") => a.id \in ArticlesWithTags(db, input.tag_ids)

\* if (tag_ids && tag_ids.length > 0) inArray(articlesTable.id, articlesWithTags)
MatchesTags(db, input, a) ==
  HasTagIds(input) => a.id \in ArticlesWithTags(db, input.tag_ids)

\* variant: the tag filter as an inner join with article_tags, which yields a
\* row per matching link
SearchRowsJoined(db, input) ==
  LET Cond(a) ==
        /\ MatchesCategory(input, a) /\ MatchesStatus(input, a)
        /\ MatchesTags(db, input, a) /\ MatchesQuery(input, a)
      S == SelectArticlesWithCategory(db, Cond)
      Links(r) == {k \in DOMAIN db.article_tags :
                     k[1] = r.article.id /\ k[2] \in Range(input.tag_ids)}
  IN [r \in S |-> IF HasTagIds(input) THEN Cardinality(Links(r)) ELSE 1]

\* baseQuery.where(and(...conditions)): each article that satisfies the
\* conditions (a conjunction, in any order) once, beside its category
SearchRows(db, input) ==
  LET Cond(a) ==
        /\ MatchesCategory(input, a) /\ MatchesStatus(input, a)
        /\ MatchesTags(db, input, a) /\ MatchesQuery(input, a)
  IN SetToBag(SelectArticlesWithCategory(db, Cond))

\* variant: the tags selected with the search's own tag condition
SelectFilteredTagsOfArticle(db, f, articleId) ==
  LET all == SelectTagsOfArticle(db, articleId)
      D == {t \in DOMAIN all : HasTagIds(f.input) => t.id \in Range(f.input.tag_ids)}
  IN [t \in D |-> all[t]]

\* the tags of one result: select ... from tags inner join article_tags
\* where article_id = result.id
SelectTagsOfResult(db, f, articleId) == SelectTagsOfArticle(db, articleId)

searchArticles(db, f, now) ==
  CASE f.pc = "start" ->
         LET results ==
               LimitOffset(OrderByCreatedAtDesc(SearchRows(db, f.input), f.loc.scan),
                           f.input.limit, f.input.offset)
         IN IF Len(results) = 0 THEN Return(db, f, [list |-> <<>>])
            ELSE Goto(db, f, "selectTags",
                      Bind(Bind(f.loc, "results", results), "articlesWithTags", <<>>))
    [] f.pc = "selectTags" ->
         LET result == f.loc.results[Len(f.loc.articlesWithTags) + 1]
             tags == SelectTagsOfResult(db, f, result.article.id)
             articlesWithTags ==
               Append(f.loc.articlesWithTags,
                      WithRelations(result.article, result.category, tags))
         IN IF Len(articlesWithTags) = Len(f.loc.results)
            THEN Return(db, f, [list |-> articlesWithTags])
            ELSE Goto(db, f, "selectTags",
                      Bind(f.loc, "articlesWithTags", articlesWithTags))

getArticles(db, f, now) ==
  CASE f.pc = "start" ->
         LET All(a) == TRUE
             articlesWithCategories ==
               OrderByCreatedAtDesc(SetToBag(SelectArticlesWithCategory(db, All)),
                                    f.loc.scan)
         IN Goto(db, f, "selectRelations",
                 Bind(f.loc, "articlesWithCategories", articlesWithCategories))
    [] f.pc = "selectRelations" ->
         LET rows == f.loc.articlesWithCategories
         IN Return(db, f,
                   [list |-> [i \in 1 .. Len(rows) |->
                                WithRelations(rows[i].article, rows[i].category,
                                              SelectTagsOfArticle(db, rows[i].article.id))]])

\* variant: where lower(slug) = lower(input.slug)
getStaticPageBySlugFolded(db, f, now) ==
  LET results == {p \in db.static_pages : ToLower(p.slug) = ToLower(f.input.slug)}
  IN IF results # {} THEN Return(db, f, [row |-> CHOOSE p \in results : TRUE])
     ELSE Return(db, f, [null |-> TRUE])

getStaticPageBySlug(db, f, now) ==
  LET results == {p \in db.static_pages : p.slug = f.input.slug}
  IN IF results # {} THEN Return(db, f, [row |-> CHOOSE p \in results : TRUE])
     ELSE Return(db, f, [null |-> TRUE])

(***************************************************************************)
(* Queries that return a whole table in the order of a text column.  Texts *)
(* compare character by character in the order of the character codes,    *)
(* so every capital letter comes before every small one.                   *)
(***************************************************************************)
\* the characters of the model's texts in the order of their codes
CodeOrder == " -.0123456789ABCDEFGHIJKLMNOPQRSTUVWXYZabcdefghijklmnopqrstuvwxyz"

CodeRank(c) == CHOOSE i \in 1 .. Len(CodeOrder) : SubSeq(CodeOrder, i, i) = c

\* a < b
RECURSIVE TextBefore(_, _)
TextBefore(a, b) ==
  IF b = "" THEN FALSE
  ELSE IF a = "" THEN TRUE
  ELSE IF Head(a) = Head(b) THEN TextBefore(Tail(a), Tail(b))
  ELSE CodeRank(Head(a)) < CodeRank(Head(b))

\* variant: the texts compare without regard to letter case
RECURSIVE OrderByTextFolded(_, _, _)
OrderByTextFolded(rows, column, scan) ==
  IF rows = {} THEN <<>>
  ELSE LET Before(r, o) ==
             \/ TextBefore(ToLower(r[column]), ToLower(o[column]))
             \/ /\ ToLower(r[column]) = ToLower(o[column])
                /\ Rank(scan, r.id) <= Rank(scan, o.id)
           first == CHOOSE r \in rows : \A o \in rows : Before(r, o)
       IN <<first>> \o OrderByTextFolded(rows \ {first}, column, scan)

\* .orderBy(asc(table[column])) of the rows of a table
RECURSIVE OrderByText(_, _, _)
OrderByText(rows, column, scan) ==
  IF rows = {} THEN <<>>
  ELSE LET Before(r, o) ==
             \/ TextBefore(r[column], o[column])
             \/ /\ r[column] = o[column]
                /\ Rank(scan, r.id) <= Rank(scan, o.id)
           first == CHOOSE r \in rows : \A o \in rows : Before(r, o)
       IN <<first>> \o OrderByText(rows \ {first}, column, scan)

getCategories(db, f, now) ==
  Return(db, f, [list |-> OrderByText(db.categories, "name", f.loc.scan)])

getTags(db, f, now) ==
  Return(db, f, [list |-> OrderByText(db.tags, "name", f.loc.scan)])

getStaticPages(db, f, now) ==
  Return(db, f, [list |-> OrderByText(db.static_pages, "slug", f.loc.scan)])

(***************************************************************************)
(* Executing calls.                                                        *)
(***************************************************************************)
\* the frame's next statement
Step(db, f, now) ==
  CASE f.op = "createCategory" -> createCategory(db, f, now)
    [] f.op = "updateCategory" -> updateCategory(db, f, now)
    [] f.op = "deleteCategory" -> deleteCategory(db, f, now)
    [] f.op = "createTag" -> createTag(db, f, now)
    [] f.op = "updateTag" -> updateTag(db, f, now)
    [] f.op = "deleteTag" -> deleteTag(db, f, now)
    [] f.op = "createStaticPage" -> createStaticPage(db, f, now)
    [] f.op = "updateStaticPage" -> updateStaticPage(db, f, now)
    [] f.op = "deleteStaticPage" -> deleteStaticPage(db, f, now)
    [] f.op = "createArticle" -> createArticle(db, f, now)
    [] f.op = "updateArticle" -> updateArticle(db, f, now)
    [] f.op = "deleteArticle" -> deleteArticle(db, f, now)
    [] f.op = "getArticleBySlug" -> getArticleBySlug(db, f, now)
    [] f.op = "searchArticles" -> searchArticles(db, f, now)
    [] f.op = "getArticles" -> getArticles(db, f, now)
    [] f.op = "getStaticPageBySlug" -> getStaticPageBySlug(db, f, now)
    [] f.op = "getCategories" -> getCategories(db, f, now)
    [] f.op = "getTags" -> getTags(db, f, now)
    [] f.op = "getStaticPages" -> getStaticPages(db, f, now)

\* the call runs to its end with no statement of another call in between
RECURSIVE Run(_, _, _)
Run(db, f, now) ==
  IF f.pc = "done" THEN [db |-> db, f |-> f]
  ELSE LET s == Step(db, f, now) IN Run(s.db, s.f, now)

(***************************************************************************)
(* State.                                                                  *)
(***************************************************************************)
VARIABLES
  categories,    \* rows of the categories table
  tags,          \* rows of the tags table
  articles,      \* rows of the articles table
  article_tags,  \* rows of the article_tags table
  static_pages,  \* rows of the static_pages table
  seq,           \* last value of each table's id sequence
  clock,         \* the current time
  calls          \* per connection: its latest call, in progress or finished

store == <<categories, tags, articles, article_tags, static_pages, seq>>
vars == <<store, clock, calls>>

\* the store; the database's clock reads what the server's clock reads
DB ==
  [categories |-> categories, tags |-> tags, articles |-> articles,
   article_tags |-> article_tags, static_pages |-> static_pages, seq |-> seq,
   now |-> clock]

Conns == {1, 2}

NoCall == [Call("none", <<>>) EXCEPT !.pc = "done"]

\* the store is d, the clock reads 0 and no connection has called yet
StartFrom(d) ==
  /\ categories = d.categories /\ tags = d.tags /\ articles = d.articles
  /\ article_tags = d.article_tags /\ static_pages = d.static_pages
  /\ seq = d.seq
  /\ clock = 0
  /\ calls = [c \in Conns |-> NoCall]

\* the store becomes d
Store(d) ==
  /\ categories' = d.categories
  /\ tags' = d.tags
  /\ articles' = d.articles
  /\ article_tags' = d.article_tags
  /\ static_pages' = d.static_pages
  /\ seq' = d.seq

Tick ==
  /\ clock < MaxTime
  /\ clock' = clock + 1
  /\ UNCHANGED <<store, calls>>

\* an insert draws the next id of the table's sequence
CanInsert(table) == seq[table] < MaxId

\* connection c has no call in progress
Free(c) == calls[c].pc = "done"

\* connection 1 makes the call and it runs to completion
Invoke(op, input) ==
  LET r == Run(DB, Call(op, input), clock)
  IN /\ Store(r.db)
     /\ calls' = [calls EXCEPT ![1] = r.f]
     /\ UNCHANGED clock

\* connection c makes the call; its statements are executed one by one
Begin(c, op, input) ==
  /\ calls' = [calls EXCEPT ![c] = Call(op, input)]
  /\ UNCHANGED <<store, clock>>

\* the call of connection c executes its next statement
Exec(c) ==
  LET s == Step(DB, calls[c], clock)
  IN /\ Store(s.db)
     /\ calls' = [calls EXCEPT ![c] = s.f]
     /\ UNCHANGED clock

\* the latest call of connection 1
last == calls[1]

\* the store after the calls of `script` ran one after the other on d
RECURSIVE After(_, _)
After(d, script) ==
  IF Len(script) = 0 THEN d
  ELSE After(Run(d, Call(script[1][1], script[1][2]), 0).db, Tail(script))

(***************************************************************************)
(* Inputs, as the zod schemas of the RPC surface admit them.               *)
(***************************************************************************)
\* the records of `full` cut down to `required` and any choice of `optional`
Partial(full, required, optional) ==
  {[c \in required \cup opt |-> r[c]] : r \in full, opt \in SUBSET optional}

DeleteInputs == [id : Ids]

CreateCategoryInputs == [name : Names, slug : Slugs, description : {NULL}]
UpdateCategoryInputs ==
  Partial([id : Ids, slug : Slugs], {"id"}, {"slug"})

CreateTagInputs == [name : Names, slug : Slugs]

CreateStaticPageInputs ==
  [slug : Slugs, title : {"About"}, content : Contents,
   seo_title : {NULL}, seo_description : {NULL}]

\* an article input with the given choices and the other fields fixed
ArticleFields(titles, slugs, statuses, categoryIds) ==
  [title : titles, slug : slugs, content : Contents, excerpt : {NULL},
   cover_image : {NULL}, status : statuses, category_id : categoryIds,
   seo_title : {NULL}, seo_description : {NULL}]

\* tag_ids lists: empty, single, several in both orders, a repeated id
TagIdLists == {<<>>, <<1>>, <<2>>, <<1, 2>>, <<2, 1>>, <<1, 1>>, <<2, 2>>}

\* r with tag_ids: every list, and r without tag_ids
WithTagIds(rs, lists) ==
  rs \cup {[c \in DOMAIN r \cup {"tag_ids"} |->
              IF c = "tag_ids" THEN l ELSE r[c]] : r \in rs, l \in lists}

(***************************************************************************)
(* SpecCategories: the calls on categories and articles, one after the     *)
(* other, from the empty store.                                            *)
(***************************************************************************)
InitEmpty == StartFrom(EmptyDB)

CreateCategoryCall ==
  \E in \in CreateCategoryInputs :
    Free(1) /\ CanInsert("categories") /\ Invoke("createCategory", in)
UpdateCategoryCall ==
  \E in \in UpdateCategoryInputs : Free(1) /\ Invoke("updateCategory", in)
DeleteCategoryCall ==
  \E in \in DeleteInputs : Free(1) /\ Invoke("deleteCategory", in)

PlainArticleInputs == ArticleFields({"Intro"}, Slugs, {"draft"}, Ids)
PlainArticleUpdates ==
  Partial([id : Ids, slug : Slugs, category_id : Ids],
          {"id"}, {"slug", "category_id"})

CreatePlainArticleCall ==
  \E in \in PlainArticleInputs :
    Free(1) /\ CanInsert("articles") /\ Invoke("createArticle", in)
UpdatePlainArticleCall ==
  \E in \in PlainArticleUpdates : Free(1) /\ Invoke("updateArticle", in)
DeleteArticleCall ==
  \E in \in DeleteInputs : Free(1) /\ Invoke("deleteArticle", in)

NextCategories ==
  \/ CreateCategoryCall \/ UpdateCategoryCall \/ DeleteCategoryCall
  \/ CreatePlainArticleCall \/ UpdatePlainArticleCall \/ DeleteArticleCall

SpecCategories == InitEmpty /\ [][NextCategories]_vars

\* the step is a call of `op` on connection 1 that ran to completion
Called(op) == clock' = clock /\ calls'[1].op = op /\ calls'[1].pc = "done"

(***************************************************************************)
(* SpecCategoriesC: connection 1 creates and deletes categories while      *)
(* connection 2 creates, moves and deletes articles; the statements of     *)
(* the two calls interleave.                                               *)
(***************************************************************************)
MoveArticleInputs == [id : Ids, category_id : Ids]

BeginCreateCategory ==
  \E in \in CreateCategoryInputs :
    /\ Free(1) /\ CanInsert("categories")
    /\ Begin(1, "createCategory", in)
BeginDeleteCategory ==
  \E in \in DeleteInputs : Free(1) /\ Begin(1, "deleteCategory", in)
BeginCreateArticle ==
  \E in \in PlainArticleInputs :
    /\ Free(2) /\ CanInsert("articles")
    /\ Begin(2, "createArticle", in)
BeginMoveArticle ==
  \E in \in MoveArticleInputs : Free(2) /\ Begin(2, "updateArticle", in)
BeginDeleteArticle ==
  \E in \in DeleteInputs : Free(2) /\ Begin(2, "deleteArticle", in)
ExecStatement == \E c \in Conns : ~Free(c) /\ Exec(c)

NextCategoriesC ==
  \/ BeginCreateCategory \/ BeginDeleteCategory
  \/ BeginCreateArticle \/ BeginMoveArticle \/ BeginDeleteArticle
  \/ ExecStatement

SpecCategoriesC == InitEmpty /\ [][NextCategoriesC]_vars

(***************************************************************************)
(* SpecTags: the calls on tags and articles, one after the other, from a   *)
(* store that holds one category and one static page.                      *)
(***************************************************************************)
Seeded ==
  After(EmptyDB,
        << <<"createCategory", [name |-> "Tech", slug |-> "a", description |-> NULL]>>,
           <<"createStaticPage", [slug |-> "a", title |-> "About", content |-> "body",
                                  seo_title |-> NULL, seo_description |-> NULL]>> >>)

InitSeeded == StartFrom(Seeded)

\* two articles to create, different in every field that may differ
ArticleMenu ==
  ArticleFields({"Intro"}, {"a"}, {"draft"}, {1})
    \cup ArticleFields({"Guide"}, {"b"}, {"published"}, {1})

TaggedArticleInputs == WithTagIds(ArticleMenu, TagIdLists)
TaggedArticleUpdates == WithTagIds([id : Ids], TagIdLists)

CreateTagCall ==
  \E in \in CreateTagInputs : Free(1) /\ CanInsert("tags") /\ Invoke("createTag", in)
DeleteTagCall == \E in \in DeleteInputs : Free(1) /\ Invoke("deleteTag", in)
CreateTaggedArticleCall ==
  \E in \in TaggedArticleInputs :
    Free(1) /\ CanInsert("articles") /\ Invoke("createArticle", in)
UpdateTaggedArticleCall ==
  \E in \in TaggedArticleUpdates : Free(1) /\ Invoke("updateArticle", in)

NextTags ==
  \/ CreateTagCall \/ DeleteTagCall
  \/ CreateTaggedArticleCall \/ UpdateTaggedArticleCall \/ DeleteArticleCall

SpecTags == InitSeeded /\ [][NextTags]_vars

(***************************************************************************)
(* SpecSlugs: the calls that store a slug (every create, and every update  *)
(* that sets one) on the four kinds of row, one after the other from the   *)
(* empty store.                                                            *)
(***************************************************************************)
SlugUpdates == [id : Ids, slug : Slugs]

RenameCategoryCall ==
  \E in \in SlugUpdates : Free(1) /\ Invoke("updateCategory", in)
RenameTagCall == \E in \in SlugUpdates : Free(1) /\ Invoke("updateTag", in)
CreateStaticPageCall ==
  \E in \in CreateStaticPageInputs :
    Free(1) /\ CanInsert("static_pages") /\ Invoke("createStaticPage", in)
RenameStaticPageCall ==
  \E in \in SlugUpdates : Free(1) /\ Invoke("updateStaticPage", in)
RenameArticleCall ==
  \E in \in SlugUpdates : Free(1) /\ Invoke("updateArticle", in)

NextSlugs ==
  \/ CreateCategoryCall \/ RenameCategoryCall
  \/ CreateTagCall \/ RenameTagCall
  \/ CreateStaticPageCall \/ RenameStaticPageCall
  \/ CreatePlainArticleCall \/ RenameArticleCall

SpecSlugs == InitEmpty /\ [][NextSlugs]_vars

(***************************************************************************)
(* SpecUpdates: updateArticle calls, one after the other while time        *)
(* passes, on a store that holds one category, one tag, an article with    *)
(* the tag and an article without; a delete makes an article id unknown.   *)
(***************************************************************************)
Intro == CHOOSE r \in ArticleFields({"Intro"}, {"a"}, {"draft"}, {1}) : TRUE
Guide == CHOOSE r \in ArticleFields({"Guide"}, {"b"}, {"published"}, {1}) : TRUE

Published ==
  After(Seeded,
        << <<"createTag", [name |-> "Tech", slug |-> "a"]>>,
           <<"createArticle", Intro @@ [tag_ids |-> <<1>>]>>,
           <<"createArticle", Guide>> >>)

InitPublished == StartFrom(Published)

\* updates of the slug, with or without a list of tags, and of the category
ArticleUpdates ==
  WithTagIds([id : Ids, slug : Slugs], {<<>>, <<1>>, <<2>>, <<1, 2>>})
    \cup [id : Ids, category_id : Ids]

UpdateArticleCall ==
  \E in \in ArticleUpdates : Free(1) /\ Invoke("updateArticle", in)

NextUpdates == Tick \/ UpdateArticleCall \/ DeleteArticleCall

SpecUpdates == InitPublished /\ [][NextUpdates]_vars

(***************************************************************************)
(* SpecReaders: connection 1 replaces the tags of article 1 by one or two  *)
(* tags while connection 2 reads articles by slug; the statements of the   *)
(* two calls interleave.  The store holds two tags, and article 1 starts   *)
(* with tag 1.                                                             *)
(***************************************************************************)
Tagged ==
  After(Published, << <<"createTag", [name |-> "Tech", slug |-> "b"]>> >>)

InitTagged == StartFrom(Tagged)

TagReplacements == [id : {1}, tag_ids : {<<1>>, <<2>>, <<1, 2>>, <<2, 1>>}]
SlugInputs == [slug : Slugs]

BeginReplaceTags ==
  \E in \in TagReplacements : Free(1) /\ Begin(1, "updateArticle", in)
BeginGetArticleBySlug ==
  \E in \in SlugInputs : Free(2) /\ Begin(2, "getArticleBySlug", in)

NextReaders == BeginReplaceTags \/ BeginGetArticleBySlug \/ ExecStatement

SpecReaders == InitTagged /\ [][NextReaders]_vars

(***************************************************************************)
(* SpecSearch: searchArticles and getArticles calls on a store that holds  *)
(* two categories and two tags and receives a draft with both tags and a   *)
(* published article with the second tag, at the same or at different      *)
(* times.                                                                  *)
(***************************************************************************)
DefaultLimit == 10

Library ==
  After(EmptyDB,
        << <<"createCategory", [name |-> "Tech", slug |-> "a", description |-> NULL]>>,
           <<"createCategory", [name |-> "Tech", slug |-> "b", description |-> NULL]>>,
           <<"createTag", [name |-> "Tech", slug |-> "a"]>>,
           <<"createTag", [name |-> "Tech", slug |-> "b"]>> >>)

InitLibrary == StartFrom(Library)

Shelf ==
  {Intro @@ [tag_ids |-> <<1, 2>>],
   (CHOOSE r \in ArticleFields({"Guide"}, {"b"}, {"published"}, {2}) : TRUE)
     @@ [tag_ids |-> <<2>>]}

\* the orders in which the database may produce the rows
ScanOrders(rows) ==
  LET ids == {r.id : r \in rows}
  IN {s \in [1 .. Cardinality(ids) -> ids] :
        \A i, j \in DOMAIN s : s[i] = s[j] => i = j}

\* every combination of the four filters, a few other values of each, and
\* the empty query and the empty list of tags beside other filters
Filters ==
  Partial([query : {"INTRO"}, category_id : {1}, status : {"published"},
           tag_ids : {<<1, 2>>}],
          {}, {"query", "category_id", "status", "tag_ids"})
    \cup {[query |-> "b_dy"], [query |-> "%"], [category_id |-> 2],
          [tag_ids |-> <<1>>], [tag_ids |-> <<>>]}
    \cup {[query |-> ""], [query |-> "", status |-> "published"],
          [tag_ids |-> <<>>, status |-> "published"],
          [query |-> "", tag_ids |-> <<>>, category_id |-> 1]}

\* one result per page
Pages == {[limit |-> 1, offset |-> 0], [limit |-> 1, offset |-> 1]}

SearchInputs ==
  {in @@ [limit |-> DefaultLimit, offset |-> 0] : in \in Filters}
    \cup {in @@ page : in \in {<<>>, [status |-> "draft"]}, page \in Pages}

\* connection 1 makes a call that returns a list and it runs to completion
InvokeScanning(op, input, scan) ==
  LET r == Run(DB, CallScanning(op, input, scan), clock)
  IN /\ Store(r.db)
     /\ calls' = [calls EXCEPT ![1] = r.f]
     /\ UNCHANGED clock

ShelveArticleCall ==
  \E in \in Shelf : Free(1) /\ CanInsert("articles") /\ Invoke("createArticle", in)
SearchArticlesCall ==
  \E in \in SearchInputs, scan \in ScanOrders(articles) :
    Free(1) /\ InvokeScanning("searchArticles", in, scan)
GetArticlesCall ==
  \E scan \in ScanOrders(articles) : Free(1) /\ InvokeScanning("getArticles", <<>>, scan)

NextSearch == Tick \/ ShelveArticleCall \/ SearchArticlesCall \/ GetArticlesCall

SpecSearch == InitLibrary /\ [][NextSearch]_vars

(***************************************************************************)
(* SpecEdits: update calls, one after the other while time passes, on a    *)
(* store that holds two rows of one kind with the slugs "a" and "b" (and   *)
(* the category that articles need).                                       *)
(***************************************************************************)
PairOfCategories ==
  After(EmptyDB,
        << <<"createCategory", [name |-> "Tech", slug |-> "a", description |-> NULL]>>,
           <<"createCategory", [name |-> "Tech", slug |-> "b", description |-> NULL]>> >>)

PairOfTags ==
  After(EmptyDB,
        << <<"createTag", [name |-> "Tech", slug |-> "a"]>>,
           <<"createTag", [name |-> "Tech", slug |-> "b"]>> >>)

PairOfStaticPages ==
  After(EmptyDB,
        << <<"createStaticPage", [slug |-> "a", title |-> "About", content |-> "body",
                                  seo_title |-> NULL, seo_description |-> NULL]>>,
           <<"createStaticPage", [slug |-> "b", title |-> "About", content |-> "body",
                                  seo_title |-> NULL, seo_description |-> NULL]>> >>)

PairOfArticles ==
  After(EmptyDB,
        << <<"createCategory", [name |-> "Tech", slug |-> "a", description |-> NULL]>>,
           <<"createArticle", Intro>>,
           <<"createArticle", Guide>> >>)

InitPairs ==
  \E d \in {PairOfCategories, PairOfTags, PairOfStaticPages, PairOfArticles} :
    StartFrom(d)

\* updates of row 1 that provide nothing, a slug, a name or both
NameEdits ==
  Partial([id : {1}, slug : Slugs, name : {"Tools"}], {"id"}, {"slug", "name"})
\* updates of row 1 that provide nothing, a slug, a title or both
TitleEdits ==
  Partial([id : {1}, slug : Slugs, title : {"Guide"}], {"id"}, {"slug", "title"})

EditCategoryCall == \E in \in NameEdits : Free(1) /\ Invoke("updateCategory", in)
EditTagCall == \E in \in NameEdits : Free(1) /\ Invoke("updateTag", in)
EditStaticPageCall ==
  \E in \in TitleEdits : Free(1) /\ Invoke("updateStaticPage", in)
EditArticleCall == \E in \in TitleEdits : Free(1) /\ Invoke("updateArticle", in)

NextEdits ==
  Tick \/ EditCategoryCall \/ EditTagCall \/ EditStaticPageCall \/ EditArticleCall

SpecEdits == InitPairs /\ [][NextEdits]_vars

(***************************************************************************)
(* SpecLookups: deletes by id and reads by slug, one after the other, on   *)
(* the store of SpecUpdates; ids run out of rows as the deletes go on, and *)
(* a requested slug may differ from a stored one in letter case only.      *)
(***************************************************************************)
LookupInputs == [slug : Slugs \cup {"A"}]

DeleteStaticPageCall ==
  \E in \in DeleteInputs : Free(1) /\ Invoke("deleteStaticPage", in)
GetArticleBySlugCall ==
  \E in \in LookupInputs : Free(1) /\ Invoke("getArticleBySlug", in)
GetStaticPageBySlugCall ==
  \E in \in LookupInputs : Free(1) /\ Invoke("getStaticPageBySlug", in)

NextLookups ==
  \/ DeleteCategoryCall \/ DeleteTagCall \/ DeleteArticleCall \/ DeleteStaticPageCall
  \/ GetArticleBySlugCall \/ GetStaticPageBySlugCall

SpecLookups == InitPublished /\ [][NextLookups]_vars

(***************************************************************************)
(* The RPC surface.  A procedure parses its input with the zod schema of   *)
(* the operation and calls the handler with the parsed input; an input     *)
(* the schema refuses is answered with BAD_REQUEST and the handler is not  *)
(* called.                                                                 *)
(***************************************************************************)
SlugChars ==
  {"a", "b", "c", "d", "e", "f", "g", "h", "i", "j", "k", "l", "m", "n", "o",
   "p", "q", "r", "s", "t", "u", "v", "w", "x", "y", "z",
   "0", "1", "2", "3", "4", "5", "6", "7", "8", "9", "-"}

\* every character of s is one of chars
RECURSIVE AllIn(_, _)
AllIn(s, chars) == s = "" \/ (Head(s) \in chars /\ AllIn(Tail(s), chars))

\* z.string().min(1)
NonEmpty(s) == Len(s) >= 1

\* z.string().min(1).regex(/^[a-z0-9-]+$/)
SlugString(s) == NonEmpty(s) /\ AllIn(s, SlugChars)

\* the fields that the schema of op holds to z.string().min(1)
NonEmptyFields(op) ==
  CASE op \in {"createCategory", "updateCategory", "createTag", "updateTag"}
         -> {"name"}
    [] op \in {"createArticle", "updateArticle",
               "createStaticPage", "updateStaticPage"} -> {"title", "content"}
    [] OTHER -> {}

\* the fields that the schema of op holds to the slug pattern
SlugFields(op) ==
  IF op \in {"createCategory", "updateCategory", "createTag", "updateTag",
             "createArticle", "updateArticle",
             "createStaticPage", "updateStaticPage"}
  THEN {"slug"} ELSE {}

\* variant: the update schemas put no condition on their optional strings
ParsesOnCreate(op, input) ==
  \/ op \in {"updateCategory", "updateTag", "updateArticle", "updateStaticPage"}
  \/ /\ \A c \in NonEmptyFields(op) \cap DOMAIN input : NonEmpty(input[c])
     /\ \A c \in SlugFields(op) \cap DOMAIN input : SlugString(input[c])

\* schema.parse(input) succeeds, for an input that has the schema's fields
Parses(op, input) ==
  /\ \A c \in NonEmptyFields(op) \cap DOMAIN input : NonEmpty(input[c])
  /\ \A c \in SlugFields(op) \cap DOMAIN input : SlugString(input[c])

\* connection 1 calls the procedure op of the router
Rpc(op, input) ==
  IF Parses(op, input) THEN Invoke(op, input)
  ELSE /\ calls' = [calls EXCEPT ![1] =
                      [Call(op, input) EXCEPT !.pc = "done",
                                              !.res = [error |-> "BAD_REQUEST"]]]
       /\ UNCHANGED <<store, clock>>

(***************************************************************************)
(* SpecRpc: creates and updates through the router, one after the other,   *)
(* on a store that holds one category, with slugs and texts that the       *)
(* schemas refuse among the inputs.                                        *)
(***************************************************************************)
OneCategory ==
  After(EmptyDB,
        << <<"createCategory", [name |-> "Tech", slug |-> "a", description |-> NULL]>> >>)

InitOneCategory == StartFrom(OneCategory)

RpcSlugs == {"a-1", "A", "a b", ""}
RpcTexts == {"Tech", ""}

RpcNamed == [name : RpcTexts, slug : RpcSlugs]
RpcNamedEdits ==
  Partial([id : {1}, name : RpcTexts, slug : RpcSlugs], {"id"}, {"name", "slug"})
RpcTitledEdits ==
  Partial([id : {1}, title : RpcTexts, slug : RpcSlugs], {"id"}, {"title", "slug"})

RpcCreateCategory ==
  \E in \in RpcNamed :
    /\ Free(1) /\ CanInsert("categories")
    /\ Rpc("createCategory", in @@ [description |-> NULL])
RpcUpdateCategory == \E in \in RpcNamedEdits : Free(1) /\ Rpc("updateCategory", in)
RpcCreateTag ==
  \E in \in RpcNamed : Free(1) /\ CanInsert("tags") /\ Rpc("createTag", in)
RpcUpdateTag == \E in \in RpcNamedEdits : Free(1) /\ Rpc("updateTag", in)
RpcCreateStaticPage ==
  \E in \in [title : RpcTexts, slug : RpcSlugs] :
    /\ Free(1) /\ CanInsert("static_pages")
    /\ Rpc("createStaticPage",
           in @@ [content |-> "body", seo_title |-> NULL, seo_description |-> NULL])
RpcUpdateStaticPage ==
  \E in \in RpcTitledEdits : Free(1) /\ Rpc("updateStaticPage", in)
RpcCreateArticle ==
  \E in \in ArticleFields(RpcTexts, RpcSlugs, {"draft"}, {1}) :
    Free(1) /\ CanInsert("articles") /\ Rpc("createArticle", in)
RpcUpdateArticle == \E in \in RpcTitledEdits : Free(1) /\ Rpc("updateArticle", in)

NextRpc ==
  \/ RpcCreateCategory \/ RpcUpdateCategory \/ RpcCreateTag \/ RpcUpdateTag
  \/ RpcCreateStaticPage \/ RpcUpdateStaticPage
  \/ RpcCreateArticle \/ RpcUpdateArticle

SpecRpc == InitOneCategory /\ [][NextRpc]_vars

(***************************************************************************)
(* SpecStamps: creates and updates of every kind of row while time passes. *)
(* A create takes created_at and updated_at from the database's clock      *)
(* (defaultNow()), an update takes updated_at from the server's clock (new *)
(* Date()); the database's clock reads what the server's reads or one      *)
(* reading more.  The store holds one category, and rows of one other kind *)
(* at a time.                                                              *)
(***************************************************************************)
DatabaseReadings == {clock, clock + 1}

\* connection 1 makes the call while the database's clock reads dbnow
InvokeAt(op, input, dbnow) ==
  LET r == Run([DB EXCEPT !.now = dbnow], Call(op, input), clock)
  IN /\ Store(r.db)
     /\ calls' = [calls EXCEPT ![1] = r.f]
     /\ UNCHANGED clock

\* no table but `table` (and categories) holds a row
Alone(table) ==
  \A t \in {"tags", "articles", "static_pages"} \ {table} : DB[t] = {}

StampCreateCategory ==
  \E dbnow \in DatabaseReadings :
    /\ Free(1) /\ CanInsert("categories") /\ Alone("categories")
    /\ InvokeAt("createCategory",
                [name |-> "Tech", slug |-> "b", description |-> NULL], dbnow)
StampCreateTag ==
  \E dbnow \in DatabaseReadings :
    /\ Free(1) /\ CanInsert("tags") /\ Alone("tags")
    /\ InvokeAt("createTag", [name |-> "Tech", slug |-> "a"], dbnow)
StampCreateStaticPage ==
  \E dbnow \in DatabaseReadings :
    /\ Free(1) /\ CanInsert("static_pages") /\ Alone("static_pages")
    /\ InvokeAt("createStaticPage",
                [slug |-> "a", title |-> "About", content |-> "body",
                 seo_title |-> NULL, seo_description |-> NULL], dbnow)
StampCreateArticle ==
  \E dbnow \in DatabaseReadings :
    /\ Free(1) /\ CanInsert("articles") /\ Alone("articles")
    /\ InvokeAt("createArticle", Intro, dbnow)

StampUpdateCategory == Free(1) /\ Invoke("updateCategory", [id |-> 2])
StampUpdateTag == Free(1) /\ Invoke("updateTag", [id |-> 1])
StampUpdateStaticPage == Free(1) /\ Invoke("updateStaticPage", [id |-> 1])
StampUpdateArticle == Free(1) /\ Invoke("updateArticle", [id |-> 1])

NextStamps ==
  \/ Tick
  \/ StampCreateCategory \/ StampCreateTag \/ StampCreateStaticPage
  \/ StampCreateArticle
  \/ StampUpdateCategory \/ StampUpdateTag \/ StampUpdateStaticPage
  \/ StampUpdateArticle

SpecStamps == InitOneCategory /\ [][NextStamps]_vars

(***************************************************************************)
(* SpecLists: rows of one kind at a time are created, with names that      *)
(* differ in the case of their first letter, and the table is listed.      *)
(***************************************************************************)
ListedNames == {"Vue", "react", "Zen"}

\* no table but `table` holds a row
OnlyRowsOf(table) == \A t \in Tables \ {table} : DB[t] = {}

ListCreateCategory ==
  \E in \in [name : ListedNames, slug : Slugs, description : {NULL}] :
    /\ Free(1) /\ CanInsert("categories") /\ OnlyRowsOf("categories")
    /\ Invoke("createCategory", in)
ListCreateTag ==
  \E in \in [name : ListedNames, slug : Slugs] :
    Free(1) /\ CanInsert("tags") /\ OnlyRowsOf("tags") /\ Invoke("createTag", in)
ListCreateStaticPage ==
  \E slug \in {"ab", "a-b", "a"} :
    /\ Free(1) /\ CanInsert("static_pages") /\ OnlyRowsOf("static_pages")
    /\ Invoke("createStaticPage",
              [slug |-> slug, title |-> "About", content |-> "body",
               seo_title |-> NULL, seo_description |-> NULL])

GetCategoriesCall ==
  \E scan \in ScanOrders(categories) :
    Free(1) /\ InvokeScanning("getCategories", <<>>, scan)
GetTagsCall ==
  \E scan \in ScanOrders(tags) : Free(1) /\ InvokeScanning("getTags", <<>>, scan)
GetStaticPagesCall ==
  \E scan \in ScanOrders(static_pages) :
    Free(1) /\ InvokeScanning("getStaticPages", <<>>, scan)

NextLists ==
  \/ ListCreateCategory \/ ListCreateTag \/ ListCreateStaticPage
  \/ GetCategoriesCall \/ GetTagsCall \/ GetStaticPagesCall

SpecLists == InitEmpty /\ [][NextLists]_vars

(***************************************************************************)
(* SpecWriters: each of the two connections makes one updateArticle call   *)
(* on article 1 of the store of SpecReaders, and the statements of the two *)
(* calls interleave.                                                       *)
(***************************************************************************)
FirstWriterInputs ==
  Partial([id : {1}, title : {"Guide"}, tag_ids : {<<2>>}],
          {"id"}, {"title", "tag_ids"})
SecondWriterInputs ==
  Partial([id : {1}, title : {"Notes"}, tag_ids : {<<1>>, <<1, 2>>}],
          {"id"}, {"title", "tag_ids"})

BeginFirstWriter ==
  \E in \in FirstWriterInputs :
    calls[1] = NoCall /\ Begin(1, "updateArticle", in)
BeginSecondWriter ==
  \E in \in SecondWriterInputs :
    calls[2] = NoCall /\ Begin(2, "updateArticle", in)

NextWriters == BeginFirstWriter \/ BeginSecondWriter \/ ExecStatement

SpecWriters == InitTagged /\ [][NextWriters]_vars

(***************************************************************************)
(* SpecCreators: connection 2 makes one createArticle call with tags on    *)
(* the store of SpecSearch while connection 1 deletes tags and categories; *)
(* the statements of the calls interleave.                                 *)
(***************************************************************************)
BeginDeleteTag ==
  \E in \in DeleteInputs : Free(1) /\ Begin(1, "deleteTag", in)
BeginCreateTaggedArticle ==
  \E in \in Shelf : calls[2] = NoCall /\ Begin(2, "createArticle", in)

NextCreators ==
  \/ BeginDeleteTag \/ BeginDeleteCategory \/ BeginCreateTaggedArticle
  \/ ExecStatement

SpecCreators == InitLibrary /\ [][NextCreators]_vars

(***************************************************************************)
(* SpecRaces: updates of a tag and of an article while the other           *)
(* connection deletes tags and articles, on the store of SpecReaders; the  *)
(* statements of the calls interleave.                                     *)
(***************************************************************************)
BeginUpdateTag ==
  \E in \in [id : {1}, name : {"Tools"}] : Free(2) /\ Begin(2, "updateTag", in)

NextRaces ==
  \/ BeginDeleteTag \/ BeginReplaceTags
  \/ BeginUpdateTag \/ BeginDeleteArticle
  \/ ExecStatement

SpecRaces == InitTagged /\ [][NextRaces]_vars

(***************************************************************************)
(* Properties.                                                             *)
(***************************************************************************)

\* C1: every stored article's category_id is the id of a category that
\* exists, whatever calls on categories and articles were made and however
\* their statements interleaved.
ArticleCategoryExists ==
  \A a \in articles : \E c \in categories : c.id = a.category_id

\* an article exists and the store refused to delete its category under a
\* deleteCategory call that had seen no article using it
DeleteRefusedByForeignKey ==
  /\ calls[1].op = "deleteCategory"
  /\ calls[1].pc = "done"
  /\ calls[1].res = [error |-> ForeignKeyViolation("articles", "category_id")]
  /\ \E a \in articles : a.category_id = calls[1].input.id

\* the articles that use category id
ArticlesUsing(id) == {a \in articles : a.category_id = id}

\* C4: deleteCategory(id) of an existing category that N >= 1 articles use
\* throws the error stating N and changes nothing; of one that no article
\* uses it returns {success: true} and removes exactly that row.
DeleteCategoryContract ==
  [][Called("deleteCategory") =>
       LET id == calls'[1].input.id
           N == Cardinality(ArticlesUsing(id))
           row == {c \in categories : c.id = id}
       IN row # {} =>
            IF N >= 1
            THEN /\ calls'[1].res =
                      [error |-> "Cannot delete category: " \o ToString(N)
                                   \o " article(s) are using this category"]
                 /\ UNCHANGED store
            ELSE /\ calls'[1].res = [success |-> TRUE]
                 /\ categories' = categories \ row
                 /\ UNCHANGED <<tags, articles, article_tags, static_pages, seq>>
  ]_vars

\* a deleteCategory call failed on a category that two articles use
DeleteCategoryRefusedForTwo ==
  /\ last.op = "deleteCategory"
  /\ last.res = [error |-> "Cannot delete category: 2 article(s) are using this category"]
  /\ Cardinality(ArticlesUsing(last.input.id)) = 2
  /\ \E c \in categories : c.id = last.input.id

\* the tag ids that article id is linked to, and its link rows
TagIdsOf(links, id) == {l[2] : l \in {k \in DOMAIN links : k[1] = id}}
LinksOf(links, id) ==
  [l \in {k \in DOMAIN links : k[1] = id} |-> links[l]]

\* C2: every article_tags row references an article that exists and a tag
\* that exists, after any calls on tags and articles.
NoDanglingLinks ==
  \A l \in DOMAIN article_tags :
    /\ \E a \in articles : a.id = l[1]
    /\ \E t \in tags : t.id = l[2]

\* a tag was deleted while the other tag is still linked to an article
TagDeletedOtherLinkKept ==
  /\ last.op = "deleteTag"
  /\ last.res = [success |-> TRUE]
  /\ article_tags # EmptyBag

\* bag `new` is bag `old` without the rows that satisfy Gone
SameLinksExcept(old, new, Gone(_)) ==
  \A l \in DOMAIN old \cup DOMAIN new :
    IF Gone(l) THEN l \notin DOMAIN new
    ELSE /\ l \in DOMAIN old /\ l \in DOMAIN new
         /\ new[l] = old[l]

\* C5: deleteArticle removes exactly the article row and that article's
\* link rows; deleteTag removes exactly the tag row and that tag's link
\* rows; every other row stays as it was.
DeleteFrame ==
  [][/\ Called("deleteArticle") =>
          LET id == calls'[1].input.id
              OfArticle(l) == l[1] = id
          IN /\ articles' = {a \in articles : a.id # id}
             /\ SameLinksExcept(article_tags, article_tags', OfArticle)
             /\ UNCHANGED <<categories, tags, static_pages>>
     /\ Called("deleteTag") =>
          LET id == calls'[1].input.id
              OfTag(l) == l[2] = id
          IN /\ tags' = {t \in tags : t.id # id}
             /\ SameLinksExcept(article_tags, article_tags', OfTag)
             /\ UNCHANGED <<categories, articles, static_pages>>
  ]_vars

\* an article was deleted; the tags it was created with and another
\* article's links are still there
ArticleDeletedRestKept ==
  /\ last.op = "deleteArticle"
  /\ last.res = [success |-> TRUE]
  /\ Cardinality(tags) = 2
  /\ article_tags # EmptyBag
  /\ categories # {} /\ static_pages # {}

\* C6: after a successful updateArticle the article is linked to exactly
\* the tags of tag_ids when tag_ids was provided (to none, and the returned
\* tags are empty, when it was the empty list), and its link rows are the
\* ones it had when tag_ids was omitted.
UpdateArticleTagLinks ==
  [][Called("updateArticle") /\ Returned(calls'[1]) =>
       LET in == calls'[1].input
           returned == calls'[1].res.article.tags
       IN IF Has(in, "tag_ids")
          THEN /\ TagIdsOf(article_tags', in.id) = Range(in.tag_ids)
               /\ {t.id : t \in DOMAIN returned} = Range(in.tag_ids)
               /\ in.tag_ids = <<>> => returned = EmptyBag
          ELSE LinksOf(article_tags', in.id) = LinksOf(article_tags, in.id)
  ]_vars

\* an update with the empty list succeeded on an article, with another
\* article still linked
TagsClearedByUpdate ==
  /\ last.op = "updateArticle"
  /\ Returned(last)
  /\ Has(last.input, "tag_ids") /\ last.input.tag_ids = <<>>
  /\ article_tags # EmptyBag

\* the ids of the list that reference no tag, comma-joined in input order
RECURSIVE Listing(_, _)
Listing(ids, existing) ==
  IF ids = <<>> THEN ""
  ELSE LET n == Len(ids)
           front == Listing(SubSeq(ids, 1, n - 1), existing)
       IN IF ids[n] \in existing THEN front
          ELSE IF front = "" THEN ToString(ids[n])
          ELSE front \o ", " \o ToString(ids[n])

\* C8: createArticle and updateArticle, given tag_ids of which some
\* reference no tag (the article and category they name existing), throw
\* the not-found error that lists exactly those ids, in input order.
MissingTagsNamed ==
  [][\A op \in {"createArticle", "updateArticle"} :
       Called(op) =>
         LET in == calls'[1].input
             existing == {t.id : t \in tags}
             valid ==
               IF op = "createArticle"
               THEN \E c \in categories : c.id = in.category_id
               ELSE /\ \E a \in articles : a.id = in.id
                    /\ Has(in, "category_id") =>
                         \E c \in categories : c.id = in.category_id
         IN valid /\ Has(in, "tag_ids") /\ ~(Range(in.tag_ids) \subseteq existing)
            => /\ calls'[1].res =
                    [error |-> (IF op = "createArticle" THEN "Tags with ids "
                                ELSE "Tags with IDs ")
                                 \o Listing(in.tag_ids, existing) \o " not found"]
               /\ UNCHANGED store
  ]_vars

\* createArticle named two missing tags, in the order of its input
TwoMissingTagsNamed ==
  /\ last.op = "createArticle"
  /\ Has(last.input, "tag_ids") /\ last.input.tag_ids = <<2, 1>>
  /\ last.res = [error |-> "Tags with ids 2, 1 not found"]

DBNext ==
  [categories |-> categories', tags |-> tags', articles |-> articles',
   article_tags |-> article_tags', static_pages |-> static_pages', seq |-> seq']

\* C10: after createArticle succeeded, getArticleBySlug of its slug returns
\* the article with the field values of the input, the row of its category
\* and the tags of tag_ids (none when tag_ids was omitted); createArticle
\* returned the same category and tags.
CreateThenGetBySlug ==
  [][Called("createArticle") /\ Returned(calls'[1]) =>
       LET in == calls'[1].input
           created == calls'[1].res.article
           got == Run(DBNext, Call("getArticleBySlug", [slug |-> in.slug]),
                      clock').f.res
           T == IF Has(in, "tag_ids") THEN Range(in.tag_ids) ELSE {}
       IN /\ Has(got, "article")
          /\ \A c \in ArticleColumns : got.article[c] = in[c]
          /\ got.article.category \in categories'
          /\ got.article.category.id = in.category_id
          /\ {t.id : t \in DOMAIN got.article.tags} = T
          /\ DOMAIN got.article.tags \subseteq tags'
          /\ T = {} => got.article.tags = EmptyBag
          /\ created.category = got.article.category
          /\ created.tags = got.article.tags
          /\ created.id = got.article.id
  ]_vars

\* an article was created with two tags
CreatedWithTwoTags ==
  /\ last.op = "createArticle"
  /\ Returned(last)
  /\ Has(last.input, "tag_ids") /\ last.input.tag_ids = <<2, 1>>
  /\ Cardinality(articles) = 2

\* no two rows of the set share a slug
DistinctSlugs(rows) == \A r1, r2 \in rows : r1.slug = r2.slug => r1 = r2

CreateOps ==
  [createCategory |-> "categories", createTag |-> "tags",
   createArticle |-> "articles", createStaticPage |-> "static_pages"]

\* C3: no two rows of one table ever share a slug, and a create call whose
\* slug is the slug of a row of its table fails and changes no row.
SlugsUnique ==
  /\ [](/\ DistinctSlugs(categories) /\ DistinctSlugs(tags)
        /\ DistinctSlugs(articles) /\ DistinctSlugs(static_pages))
  /\ [][\A op \in DOMAIN CreateOps :
          Called(op) /\ (\E r \in DB[CreateOps[op]] : r.slug = calls'[1].input.slug)
            => Threw(calls'[1]) /\ UNCHANGED store
       ]_vars

\* createStaticPage was refused for a slug that a stored page has
CreateRefusedForTakenSlug ==
  /\ last.op = "createStaticPage"
  /\ last.res = [error |-> UniqueViolation("static_pages")]
  /\ \E r \in static_pages : r.slug = last.input.slug

\* C9: an updateArticle call that fails leaves every article row, updated_at
\* included, and every tag link as they were before the call.
FailedUpdateChangesNothing ==
  [][Called("updateArticle") /\ Threw(calls'[1])
       => articles' = articles /\ article_tags' = article_tags]_vars

\* an update of a tagged article to a slug in use and to no tags was refused
\* at a later time than the article's last update
UpdateRefusedForTakenSlug ==
  /\ last.op = "updateArticle"
  /\ last.res = [error |-> UniqueViolation("articles")]
  /\ Has(last.input, "tag_ids") /\ last.input.tag_ids = <<>>
  /\ \E a \in articles :
       /\ a.id = last.input.id
       /\ a.updated_at < clock
       /\ TagIdsOf(article_tags, a.id) # {}

\* C7: a getArticleBySlug call that runs while updateArticle replaces a
\* non-empty tag set by a non-empty tag set never returns the article with
\* zero tags.
ReaderSeesTags ==
  \A c \in Conns :
    calls[c].op = "getArticleBySlug" /\ Returned(calls[c])
      /\ Has(calls[c].res, "article")
      /\ calls[c].res.article.id = 1
      => calls[c].res.article.tags # EmptyBag

\* a read of article 1 finished between the delete of its links and the
\* insert of the new ones
ReadBetweenDeleteAndInsert ==
  /\ calls[1].op = "updateArticle" /\ calls[1].pc = "insertArticleTags"
  /\ calls[2].op = "getArticleBySlug" /\ Returned(calls[2])
  /\ Has(calls[2].res, "article") /\ calls[2].res.article.id = 1

(***************************************************************************)
(* Properties of the queries that return a list.                           *)
(***************************************************************************)
\* the ids of the articles of a returned list
ResultIds(f) == {f.res.list[i].id : i \in DOMAIN f.res.list}

\* q is a substring of the text, letter case aside
ContainsFolded(text, q) ==
  \E i \in 1 .. Len(text) - Len(q) + 1 :
    ToLower(SubSeq(text, i, i + Len(q) - 1)) = ToLower(q)

\* the article satisfies every filter of the input
SatisfiesFilters(input, a) ==
  /\ Has(input, "query")
       => ContainsFolded(a.title, input.query) \/ ContainsFolded(a.content, input.query)
  /\ Has(input, "category_id") => a.category_id = input.category_id
  /\ Has(input, "status") => a.status = input.status
  /\ HasTagIds(input)
       => \E t \in Range(input.tag_ids) : <<a.id, t>> \in DOMAIN article_tags

\* the list is the page input.limit, input.offset of some listing of `all`
IsPageOf(f, all) ==
  /\ ResultIds(f) \subseteq {a.id : a \in all}
  /\ Len(f.res.list) =
       Min(f.input.limit,
           IF Cardinality(all) > f.input.offset
           THEN Cardinality(all) - f.input.offset ELSE 0)

\* C11: searchArticles selects the stored articles that satisfy all the
\* filters supplied, where query is satisfied by an article that has it as a
\* substring of its title or of its content, letter case aside (an empty tag
\* list counted as no filter); the result is a page of that selection.
SearchSelectsSatisfying ==
  [][Called("searchArticles")
       => IsPageOf(calls'[1],
                   {a \in articles : SatisfiesFilters(calls'[1].input, a)})]_vars

\* a search for "b_dy" returned an article
SearchWithWildcard ==
  /\ last.op = "searchArticles" /\ Returned(last)
  /\ Has(last.input, "query") /\ last.input.query = "b_dy"
  /\ Len(last.res.list) > 0

\* C12: no article appears twice in a list that searchArticles returns.
SearchResultsDistinct ==
  [][Called("searchArticles")
       => \A i, j \in DOMAIN calls'[1].res.list :
            calls'[1].res.list[i].id = calls'[1].res.list[j].id => i = j]_vars

\* a search for tags 1 and 2 returned an article that has both
FoundByBothTags ==
  /\ last.op = "searchArticles" /\ Returned(last)
  /\ Has(last.input, "tag_ids") /\ last.input.tag_ids = <<1, 2>>
  /\ \E i \in DOMAIN last.res.list :
       {1, 2} \subseteq TagIdsOf(article_tags, last.res.list[i].id)

\* C13: searchArticles returns at most limit articles, and the pages at
\* offsets k * limit and (k + 1) * limit of the same search on the same store
\* share no article; the first two pages hold every selected article when
\* there are at most 2 * limit of them.
PagesPartition ==
  [][/\ Called("searchArticles") => Len(calls'[1].res.list) <= calls'[1].input.limit
     /\ /\ Called("searchArticles")
        /\ calls[1].op = "searchArticles" /\ Returned(calls[1])
        /\ [calls'[1].input EXCEPT !.offset = 0] = [calls[1].input EXCEPT !.offset = 0]
        /\ calls'[1].input.offset = calls[1].input.offset + calls[1].input.limit
        => /\ ResultIds(calls[1]) \cap ResultIds(calls'[1]) = {}
           /\ LET all == {a \in articles : SatisfiesFilters(calls[1].input, a)}
              IN calls[1].input.offset = 0
                   /\ Cardinality(all) <= 2 * calls[1].input.limit
                   => ResultIds(calls[1]) \cup ResultIds(calls'[1])
                        = {a.id : a \in all}
    ]_vars

\* the second page of one was fetched after the first, on a store whose two
\* articles were created at the same time
SecondPageOfTied ==
  /\ last.op = "searchArticles" /\ Returned(last)
  /\ last.input.limit = 1 /\ last.input.offset = 1
  /\ Cardinality(articles) = 2
  /\ \A a, b \in articles : a.created_at = b.created_at

\* C14: a search with no filter is a page of all the stored articles,
\* whatever their status.
SearchUnfilteredTakesAll ==
  [][Called("searchArticles")
       /\ DOMAIN calls'[1].input = {"limit", "offset"}
       => IsPageOf(calls'[1], articles)]_vars

\* a search with no filter returned a draft and a published article
DraftAndPublishedFound ==
  /\ last.op = "searchArticles" /\ Returned(last)
  /\ DOMAIN last.input = {"limit", "offset"}
  /\ {last.res.list[i].status : i \in DOMAIN last.res.list} = Statuses

\* C15: getArticles returns every stored article exactly once, and the lists
\* of getArticles and searchArticles are in descending order of created_at.
ListsNewestFirst ==
  [][/\ Called("getArticles")
          => /\ Len(calls'[1].res.list) = Cardinality(articles)
             /\ ResultIds(calls'[1]) = {a.id : a \in articles}
     /\ Called("getArticles") \/ Called("searchArticles")
          => \A i \in 1 .. Len(calls'[1].res.list) - 1 :
               calls'[1].res.list[i].created_at
                 >= calls'[1].res.list[i + 1].created_at
    ]_vars

\* getArticles returned two articles created at different times
ListedTwoOfDifferentAge ==
  /\ last.op = "getArticles" /\ Returned(last)
  /\ Len(last.res.list) = 2
  /\ last.res.list[1].created_at # last.res.list[2].created_at

\* C16: every article that searchArticles returns carries all the tags it is
\* linked to and the category row of its category_id.
SearchResultsComplete ==
  [][Called("searchArticles")
       => \A i \in DOMAIN calls'[1].res.list :
            LET r == calls'[1].res.list[i]
            IN /\ {t.id : t \in BagToSet(r.tags)} = TagIdsOf(article_tags, r.id)
               /\ BagToSet(r.tags) \subseteq tags
               /\ r.category \in categories /\ r.category.id = r.category_id
    ]_vars

\* a search for tag 1 returned an article with its tag 2 as well
FoundWithOtherTag ==
  /\ last.op = "searchArticles" /\ Returned(last)
  /\ Has(last.input, "tag_ids") /\ last.input.tag_ids = <<1>>
  /\ \E i \in DOMAIN last.res.list :
       2 \in {t.id : t \in BagToSet(last.res.list[i].tags)}

(***************************************************************************)
(* Properties of the updates.                                              *)
(***************************************************************************)
UpdateOps ==
  [updateCategory |-> "categories", updateTag |-> "tags",
   updateStaticPage |-> "static_pages", updateArticle |-> "articles"]

RowOf(rows, id) == CHOOSE r \in rows : r.id = id

\* this step is a successful update that changed, in its table, the row of
\* input.id only: to the input's value in every field the input provides, to
\* the time of the call in updated_at, and in no other field; updated_at grew
\* if `always`, or else if the clock was past it
UpdateChangesProvided(op, always) ==
  Called(op) /\ Returned(calls'[1])
    => LET in == calls'[1].input
           old == RowOf(DB[UpdateOps[op]], in.id)
           new == RowOf(DBNext[UpdateOps[op]], in.id)
       IN /\ DBNext[UpdateOps[op]] \ {new} = DB[UpdateOps[op]] \ {old}
          /\ \A c \in DOMAIN old :
               new[c] = IF c \in DOMAIN in THEN in[c]
                        ELSE IF c = "updated_at" THEN clock
                        ELSE old[c]
          /\ always \/ clock > old.updated_at => new.updated_at > old.updated_at

UpdateToTakenSlug ==
  [][\A op \in DOMAIN UpdateOps :
       Called(op) /\ Has(calls'[1].input, "slug")
         /\ (\E r \in DB[UpdateOps[op]] : r.id = calls'[1].input.id)
         => LET in == calls'[1].input
                old == RowOf(DB[UpdateOps[op]], in.id)
            IN /\ (\E r \in DB[UpdateOps[op]] : r.id # in.id /\ r.slug = in.slug)
                    => Threw(calls'[1]) /\ UNCHANGED store
               /\ old.slug = in.slug => Returned(calls'[1])
    ]_vars

\* an update of a category to the other category's slug was refused after
\* time had passed
RenameRefusedLater ==
  /\ last.op = "updateCategory"
  /\ last.res = [error |-> UniqueViolation("categories")]
  /\ \E r \in categories : r.id = last.input.id /\ r.updated_at < clock

(***************************************************************************)
(* Properties of deletes by id and reads by slug.                          *)
(***************************************************************************)
DeleteOps ==
  [deleteCategory |-> "categories", deleteTag |-> "tags",
   deleteArticle |-> "articles", deleteStaticPage |-> "static_pages"]

\* C19: a delete of an id that has no row leaves the store unchanged;
\* deleteTag, deleteArticle and deleteStaticPage return {success: false},
\* deleteCategory throws an error that names the id.
DeleteOfMissingId ==
  [][\A op \in DOMAIN DeleteOps :
       Called(op) /\ ~(\E r \in DB[DeleteOps[op]] : r.id = calls'[1].input.id)
         => /\ UNCHANGED store
            /\ IF op = "deleteCategory"
               THEN calls'[1].res =
                      [error |-> "Category with id "
                                   \o ToString(calls'[1].input.id) \o " not found"]
               ELSE calls'[1].res = [success |-> FALSE]
    ]_vars

\* a tag that had been deleted was deleted once more
TagDeletedTwice ==
  /\ last.op = "deleteTag" /\ last.res = [success |-> FALSE]
  /\ seq.tags >= last.input.id

\* C20: getArticleBySlug and getStaticPageBySlug return the row whose slug
\* equals the requested slug character for character, and null when no row
\* has that slug.
ReadBySlugIsExact ==
  [][/\ Called("getArticleBySlug")
          => IF \E a \in articles : a.slug = calls'[1].input.slug
             THEN /\ Returned(calls'[1]) /\ Has(calls'[1].res, "article")
                  /\ calls'[1].res.article.slug = calls'[1].input.slug
                  /\ \E a \in articles :
                       \A c \in DOMAIN a : calls'[1].res.article[c] = a[c]
             ELSE calls'[1].res = [null |-> TRUE]
     /\ Called("getStaticPageBySlug")
          => IF \E p \in static_pages : p.slug = calls'[1].input.slug
             THEN /\ Has(calls'[1].res, "row")
                  /\ calls'[1].res.row \in static_pages
                  /\ calls'[1].res.row.slug = calls'[1].input.slug
             ELSE calls'[1].res = [null |-> TRUE]
    ]_vars

\* the page "a" is stored and the page "A" was asked for and not found
UpperCaseSlugNotFound ==
  /\ last.op = "getStaticPageBySlug" /\ last.input.slug = "A"
  /\ last.res = [null |-> TRUE]
  /\ \E p \in static_pages : p.slug = "a"

(***************************************************************************)
(* Properties of the RPC surface.                                          *)
(***************************************************************************)
RpcWriteOps ==
  {"createCategory", "updateCategory", "createTag", "updateTag",
   "createStaticPage", "updateStaticPage", "createArticle", "updateArticle"}

\* the input carries a slug that does not match ^[a-z0-9-]+$, or an empty
\* name, title or content
IllFormed(input) ==
  \/ Has(input, "slug") /\ ~SlugString(input.slug)
  \/ \E c \in {"name", "title", "content"} \cap DOMAIN input : input[c] = ""

StoredSlugs ==
  {r.slug : r \in categories \cup tags \cup articles \cup static_pages}

\* C21: a create or update through the router whose slug does not match
\* ^[a-z0-9-]+$, or whose name, title or content is empty, is answered with a
\* validation error and leaves the store unchanged; every stored slug
\* matches ^[a-z0-9-]+$.
IllFormedInputRefused ==
  /\ [][\A op \in RpcWriteOps :
          clock' = clock /\ calls'[1].op = op /\ IllFormed(calls'[1].input)
            => calls'[1].res = [error |-> "BAD_REQUEST"] /\ UNCHANGED store
       ]_vars
  /\ [](\A s \in StoredSlugs : SlugString(s))

\* an update of an article to the slug "a b" was refused, and a row with a
\* hyphen and a digit in its slug is stored
SlugWithBlankRefused ==
  /\ last.op = "updateArticle" /\ Has(last.input, "slug") /\ last.input.slug = "a b"
  /\ last.res = [error |-> "BAD_REQUEST"]
  /\ "a-1" \in StoredSlugs


(***************************************************************************)
(* Properties of the timestamps.                                           *)
(***************************************************************************)
AllRows == categories \cup tags \cup articles \cup static_pages

\* the row of table UpdateOps[op] that the latest call updated
UpdatedRow(op) == RowOf(DB[UpdateOps[op]], last.input.id)

\* C22: created_at = updated_at right after the create call; updated_at >=
\* created_at in every state, and updated_at > created_at once the row has
\* been updated successfully.
StampsOrdered ==
  /\ \A op \in DOMAIN CreateOps :
       last.op = op /\ Returned(last)
         => \A r \in DB[CreateOps[op]] :
              r.id = seq[CreateOps[op]] => r.created_at = r.updated_at
  /\ \A r \in AllRows : r.updated_at >= r.created_at
  /\ \A op \in DOMAIN UpdateOps :
       last.op = op /\ Returned(last)
         => UpdatedRow(op).updated_at > UpdatedRow(op).created_at

\* a tag was created when the database's clock read more than the server's
\* and was updated before the server's clock read as much
TagUpdatedBeforeCreated ==
  /\ last.op = "updateTag" /\ Returned(last)
  /\ \E r \in tags : r.id = last.input.id /\ r.updated_at < r.created_at


(***************************************************************************)
(* Properties of the queries that list a table.                            *)
(***************************************************************************)
ListOps ==
  [getCategories |-> [table |-> "categories", column |-> "name"],
   getTags |-> [table |-> "tags", column |-> "name"],
   getStaticPages |-> [table |-> "static_pages", column |-> "slug"]]

\* C23: getCategories and getTags return every stored row exactly once in
\* ascending order of name, the names compared by character code (capital
\* letters before small ones); getStaticPages returns every stored page
\* exactly once in ascending order of slug.
ListsInTextOrder ==
  [][\A op \in DOMAIN ListOps :
       Called(op)
         => LET list == calls'[1].res.list
                column == ListOps[op].column
            IN /\ Len(list) = Cardinality(DB[ListOps[op].table])
               /\ Range(list) = DB[ListOps[op].table]
               /\ \A i \in 1 .. Len(list) - 1 :
                    ~TextBefore(list[i + 1][column], list[i][column])
    ]_vars

\* getTags listed the tag Vue before the tag react
CapitalListedFirst ==
  /\ last.op = "getTags" /\ Returned(last)
  /\ Len(last.res.list) = 2
  /\ last.res.list[1].name = "Vue" /\ last.res.list[2].name = "react"


(***************************************************************************)
(* Properties of concurrent calls.                                         *)
(***************************************************************************)
\* the articles and links of store d
ArticlesAndLinks(d) == <<d.articles, d.article_tags>>

\* the store after the calls of the two connections ran one after the
\* other on the initial store, connection `first` first
Serial(initial, first) ==
  LET second == CHOOSE c \in Conns : c # first
  IN After(initial, << <<calls[first].op, calls[first].input>>,
                       <<calls[second].op, calls[second].input>> >>)

\* C24: when two concurrent updateArticle calls on the same article have
\* finished, the article and its tag links are as if the two calls had run
\* one after the other in some order.
WritersSerialize ==
  (\A c \in Conns : calls[c].op = "updateArticle" /\ calls[c].pc = "done")
    => \E first \in Conns :
         ArticlesAndLinks(DB) = ArticlesAndLinks(Serial(Tagged, first))

\* both calls have finished, one gave the tag list [2] and the other [1],
\* and the article is linked to both tags
LinksOfBothWriters ==
  /\ \A c \in Conns : calls[c].op = "updateArticle" /\ Returned(calls[c])
  /\ Has(calls[1].input, "tag_ids") /\ calls[1].input.tag_ids = <<2>>
  /\ Has(calls[2].input, "tag_ids") /\ calls[2].input.tag_ids = <<1>>
  /\ TagIdsOf(article_tags, 1) = {1, 2}


(***************************************************************************)
(* Properties of the validation of tag ids.                                *)
(***************************************************************************)
\* C25: a createArticle call with an existing category and an unused slug
\* fails if and only if some id of tag_ids is the id of no tag, whether or
\* not the list repeats an id, and the error of a failed call names an id.
TagValidationExact ==
  [][Called("createArticle")
       /\ (\E c \in categories : c.id = calls'[1].input.category_id)
       /\ ~(\E a \in articles : a.slug = calls'[1].input.slug)
       => LET in == calls'[1].input
              missing == IF Has(in, "tag_ids")
                         THEN {id \in Range(in.tag_ids) :
                                 ~(\E t \in tags : t.id = id)}
                         ELSE {}
          IN /\ Threw(calls'[1]) <=> missing # {}
             /\ Threw(calls'[1])
                  => calls'[1].res.error # "Tags with ids  not found"
    ]_vars

\* createArticle was refused a list that names an existing tag twice
RepeatedTagRefused ==
  /\ last.op = "createArticle" /\ Threw(last)
  /\ Has(last.input, "tag_ids") /\ last.input.tag_ids = <<1, 1>>
  /\ \E t \in tags : t.id = 1



\* connection 1 has finished a deleteCategory of category c and connection 2
\* a createArticle or updateArticle that sets category_id to c
DeleteMetArticleCall(c) ==
  /\ calls[1].op = "deleteCategory" /\ calls[1].pc = "done"
  /\ calls[1].input.id = c
  /\ calls[2].op \in {"createArticle", "updateArticle"} /\ calls[2].pc = "done"
  /\ Has(calls[2].input, "category_id") /\ calls[2].input.category_id = c

\* C26: a deleteCategory of c and a createArticle or updateArticle that sets
\* category_id to c never both succeed, however their statements interleave:
\* if the article call succeeded, category c and the article that references
\* it are stored; if the category was deleted, the article call failed and
\* no article references c.
CategoryOrArticleWins ==
  \A c \in Ids :
    DeleteMetArticleCall(c)
      => /\ ~(Returned(calls[1]) /\ Returned(calls[2]))
         /\ Returned(calls[2])
              => /\ \E k \in categories : k.id = c
                 /\ \E a \in articles :
                      a.id = calls[2].res.article.id /\ a.category_id = c
         /\ Returned(calls[1])
              => /\ Threw(calls[2])
                 /\ ~(\E a \in articles : a.category_id = c)

\* the category was deleted after createArticle had found it, and the store
\* refused the article
ArticleRefusedByForeignKey ==
  /\ \E c \in Ids : DeleteMetArticleCall(c)
  /\ calls[1].res = [success |-> TRUE]
  /\ calls[2].op = "createArticle"
  /\ calls[2].res = [error |-> ForeignKeyViolation("articles", "category_id")]



\* C27: a createArticle call that returns an error leaves no article row and
\* no link row of its own in the store, whatever deleteTag or deleteCategory
\* calls ran at the same time.
CreateArticleAllOrNothing ==
  calls[2].op = "createArticle" /\ Threw(calls[2])
    => /\ ~(\E a \in articles : a.slug = calls[2].input.slug)
       /\ article_tags = EmptyBag

\* a tag of the list was deleted after createArticle had found it: the
\* insert of the links was refused, and the article is stored
ArticleLeftWithoutLinks ==
  /\ calls[2].op = "createArticle"
  /\ calls[2].res = [error |-> ForeignKeyViolation("article_tags", "tag_id")]
  /\ \E a \in articles : a.slug = calls[2].input.slug



\* C28: an updateTag call that has finished either raised an error or
\* returned the tag row, whatever deleteTag call ran at the same time; an
\* updateArticle call either raised an error or returned the article,
\* whatever deleteArticle call ran at the same time.
UpdateReturnsRowOrThrows ==
  \A c \in Conns :
    /\ calls[c].op = "updateTag" /\ calls[c].pc = "done"
         => Threw(calls[c]) \/ Has(calls[c].res, "row")
    /\ calls[c].op = "updateArticle" /\ calls[c].pc = "done"
         => Threw(calls[c]) \/ Has(calls[c].res, "article")

\* the tag was deleted after updateTag had found it: the update matched no
\* row and updateTag returned result[0] of an empty result
UpdateTagReturnedNothing ==
  /\ calls[1].op = "deleteTag" /\ calls[1].res = [success |-> TRUE]
  /\ calls[2].op = "updateTag" /\ calls[2].res = [undefined |-> TRUE]
  /\ ~(\E t \in tags : t.id = calls[2].input.id)



\* the input without the field
Without(input, field) == [c \in DOMAIN input \ {field} |-> input[c]]

\* the result of the latest call, had its input been `input`
ResultFor(input) ==
  Run(DB, CallScanning(calls'[1].op, input, calls'[1].loc.scan), clock).f.res

\* C29: searchArticles with an empty query, or with an empty list of tag
\* ids, returns what the same call without that field returns.
EmptyFilterIsNoFilter ==
  [][Called("searchArticles")
       => LET in == calls'[1].input
          IN /\ Has(in, "query") /\ in.query = ""
                  => calls'[1].res = ResultFor(Without(in, "query"))
             /\ Has(in, "tag_ids") /\ in.tag_ids = <<>>
                  => calls'[1].res = ResultFor(Without(in, "tag_ids"))
    ]_vars

\* a search with an empty list of tag ids and a status found an article
FoundWithEmptyTagList ==
  /\ last.op = "searchArticles" /\ Returned(last)
  /\ Has(last.input, "tag_ids") /\ last.input.tag_ids = <<>>
  /\ Has(last.input, "status")
  /\ Len(last.res.list) > 0



\* the deletes that report a missing row in their result
ReportingDeletes == {"deleteTag", "deleteArticle", "deleteStaticPage"}

\* C30: deleteTag, deleteArticle and deleteStaticPage of an id that has a row
\* return {success: true} and remove the row; the same call made again right
\* after returns {success: false} and leaves the store as the first left it.
DeleteTwiceInARow ==
  [][\A op \in ReportingDeletes :
       Called(op)
         => LET id == calls'[1].input.id
            IN /\ (\E r \in DB[DeleteOps[op]] : r.id = id)
                    => /\ calls'[1].res = [success |-> TRUE]
                       /\ ~(\E r \in DB'[DeleteOps[op]] : r.id = id)
               /\ (/\ calls[1].op = op /\ calls[1].input = calls'[1].input
                   /\ calls[1].res = [success |-> TRUE])
                    => /\ calls'[1].res = [success |-> FALSE]
                       /\ UNCHANGED store
    ]_vars

\* the article that the store was given with a tag was deleted, with its
\* link, and deleted once more
ArticleDeletedTwice ==
  /\ last.op = "deleteArticle" /\ last.res = [success |-> FALSE]
  /\ last.input.id = 1
  /\ ~(\E a \in DB.articles : a.id = 1)
  /\ DB.article_tags = EmptyBag
  /\ DB.tags # {}


====
